---- MODULE Spec2Model ----
(***************************************************************************)
(* Location720: the crash detector of location720.js (class CrashDetector) *)
(* and the part of Location720Card that drives it.                         *)
(*                                                                         *)
(* Time is Date.now() in milliseconds.  Speeds are kept in tenths of a     *)
(* km/h so that Math.round is a real conversion.                           *)
(***************************************************************************)
EXTENDS Integers, Sequences, FiniteSets, TLC

\* ------------------------------------------------------------------------
\* Bounds of the model
\* ------------------------------------------------------------------------
MaxReadings == 3
MaxPatternReadings == 2
MaxPatternTicks == 2
MaxCardReadings == 4
MaxWindowReadings == 4
MaxArrivalReadings == 3
MaxConfigReadings == 4
MaxPairReadings == 4
MaxLoads == 3
MaxSamples == 3
MaxMoves == 6
MaxRouteMoves == 4
MaxFrames == 3
MaxTicks == 3

\* ------------------------------------------------------------------------
\* Program constants
\* ------------------------------------------------------------------------
HistoryWindowMs == 60000
MsPerMinute == 60000
MsPerSecond == 1000
SpeedScale == 10

DefaultMinSpeedBefore == 50
DefaultMaxSpeedAfter == 5
DefaultMinGpsAccuracy == 50
DefaultConfirmationDelay == 30
DefaultTimeWindow == 5
DefaultUpdateInterval == 30

\* ------------------------------------------------------------------------
\* Input domains
\* ------------------------------------------------------------------------
Persons == {"anna", "ben"}

\* Date.now() when the detector is constructed, and the step of the clock
StartTime == 1000000
TickMs == DefaultUpdateInterval * MsPerSecond
MaxTime == StartTime + MaxTicks * TickMs

\* a missing (undefined) accuracy: every comparison with it is false
NaN == -1
Null == "null"

NullActivity == [null |-> TRUE, text |-> <<>>]
Activity(chars) == [null |-> FALSE, text |-> chars]
Driving == Activity(<<"D", "r", "i", "v", "i", "n", "g">>)
InVehicle == Activity(<<"I", "N", "_", "V", "E", "H", "I", "C", "L", "E">>)
Walking == Activity(<<"w", "a", "l", "k", "i", "n", "g">>)

\* now            Date.now()
\* config         CrashDetector._config
\* speedHistory   CrashDetector._speedHistory  (object: person -> readings)
\* pendingAlerts  CrashDetector._pendingAlerts (object: person -> pending)
\* lastAlert      CrashDetector._lastAlert     (object: person -> time)
\* timers         the host's setTimeout queue  (timer id -> callback, due time)
\* nextTimer      the id the next setTimeout returns
\* events         'location720-crash-alert' events dispatched on window
\* banner         Location720Card: style.display of #crash-banner
\* notified       Location720Card: the notify service calls made so far
\* last           the last call made and what it returned (observation only)
\* cancelled      the pending alerts cancelled so far (observation only)
\* nReadings      addReading calls made so far (it bounds the run)
\* rawHistory     the sample list fetchHistory returned (HistoryAPI input)
\* route          what processHistory made of it (an entry of card._routes)
\* orphaned       the pending alerts of the detectors setConfig replaced,
\*                by the id of the timer that still holds them
\* selected       the date range last selected (_config.history_days)
\* loads          the _loadHistory calls awaiting a fetch, oldest first
\* routes         Location720Card._routes (object: person -> route)
\* pressed        the timers of the alerts that were pending at a press of
\*                "I'm OK" (observation only)
VARIABLES now, config, speedHistory, pendingAlerts, lastAlert,
          timers, nextTimer, events, banner, notified,
          last, cancelled, nReadings, rawHistory, route, fetched, playback,
          orphaned, selected, loads, routes, pressed

detectorVars == <<config, speedHistory, pendingAlerts, lastAlert,
                  timers, nextTimer, events>>
historyVars == <<rawHistory, route, fetched, playback>>
raceVars == <<orphaned, selected, loads, routes, pressed>>
cardVars == <<banner, notified, rawHistory, route, fetched, playback,
              orphaned, selected, loads, routes, pressed>>

vars == <<now, config, speedHistory, pendingAlerts, lastAlert,
          timers, nextTimer, events, banner, notified,
          last, cancelled, nReadings, rawHistory, route, fetched,
          playback, orphaned, selected, loads, routes, pressed>>

\* ------------------------------------------------------------------------
\* JavaScript helpers
\* ------------------------------------------------------------------------
\* obj[k] = v
Put(obj, k, v) == [q \in (DOMAIN obj) \cup {k} |-> IF q = k THEN v ELSE obj[q]]
\* delete obj[k]
Delete(obj, k) == [q \in (DOMAIN obj) \ {k} |-> obj[q]]
EmptyObject == [q \in {} |-> 0]
\* a > b and a <= b on numbers that may be undefined
Gt(a, b) == a # NaN /\ b # NaN /\ a > b
Le(a, b) == a # NaN /\ b # NaN /\ a <= b
\* !z for a zone label
Falsy(z) == z \in {Null, ""}
\* Math.round on a speed kept in tenths: whole km/h, halves go up
Round(s) == (s + SpeedScale \div 2) \div SpeedScale

LowerOf(c) ==
  CASE c = "A" -> "a" [] c = "D" -> "d" [] c = "E" -> "e" [] c = "H" -> "h"
    [] c = "I" -> "i" [] c = "C" -> "c" [] c = "L" -> "l" [] c = "N" -> "n"
    [] c = "G" -> "g" [] c = "R" -> "r" [] c = "V" -> "v" [] c = "O" -> "o"
    [] c = "M" -> "m" [] c = "T" -> "t" [] c = "W" -> "w" [] c = "K" -> "k"
    [] OTHER -> c
ToLowerCase(s) == [i \in 1..Len(s) |-> LowerOf(s[i])]
Includes(s, sub) ==
  \E i \in 0..(Len(s) - Len(sub)) : \A j \in 1..Len(sub) : s[i + j] = sub[j]

Driv == <<"d", "r", "i", "v">>
Vehicle == <<"v", "e", "h", "i", "c", "l", "e">>
Automotive == <<"a", "u", "t", "o", "m", "o", "t", "i", "v", "e">>

\* ------------------------------------------------------------------------
\* CrashDetector: pure parts of _checkForCrash
\* ------------------------------------------------------------------------
\* history.filter(r => new Date(r.timestamp).getTime() > start)
After(history, start) == SelectSeq(history, LAMBDA r : r.timestamp > start)

\* recentReadings.reduce((max, r) => r.speed > max.speed ? r : max, recentReadings[0])
RECURSIVE Reduce(_, _, _)
Reduce(readings, i, max) ==
  IF i > Len(readings) THEN max
  ELSE Reduce(readings, i + 1,
              IF readings[i].speed > max.speed THEN readings[i] ELSE max)
MaxSpeedReading(readings) == Reduce(readings, 1, readings[1])

\* the label matched without toLowerCase
IsDrivingLabel_CaseSensitive(a) ==
  /\ ~a.null
  /\ \/ Includes(a.text, Driv)
     \/ Includes(a.text, Vehicle)
     \/ Includes(a.text, Automotive)

IsDrivingLabel(a) ==
  /\ ~a.null
  /\ \/ Includes(ToLowerCase(a.text), Driv)
     \/ Includes(ToLowerCase(a.text), Vehicle)
     \/ Includes(ToLowerCase(a.text), Automotive)

WasRecentlyDriving(readings) ==
  \E i \in 1..Len(readings) : IsDrivingLabel(readings[i].activity)

\* the zone test turned round: leaving a zone instead of entering one
IsZoneEntry_Exit(history) ==
  IF Len(history) < 2 THEN FALSE
  ELSE LET latest == history[Len(history)]
           previous == history[Len(history) - 1]
       IN  ~Falsy(previous.zone) /\ Falsy(latest.zone)

IsZoneEntry(history) ==
  IF Len(history) < 2 THEN FALSE
  ELSE LET latest == history[Len(history)]
           previous == history[Len(history) - 1]
       IN  Falsy(previous.zone) /\ ~Falsy(latest.zone)

\* the cooldown test with its comparison turned round
CooldownActive_Inverted(cfg, la, t) ==
  /\ la # 0
  /\ (t - la) > cfg.alert_cooldown * MsPerMinute

\* this._lastAlert[p] && (now - this._lastAlert[p]) < alert_cooldown * 60000
CooldownActive(cfg, la, t) ==
  /\ la # 0
  /\ (t - la) < cfg.alert_cooldown * MsPerMinute

\* the lookback taken as the whole retained history
WindowStart_History(cfg, t) == t - HistoryWindowMs

\* now - (time_window * 1000)
WindowStart(cfg, t) == t - cfg.time_window * MsPerSecond

Conditions(cfg, history, recent) ==
  LET latest == history[Len(history)]
      speedBefore == MaxSpeedReading(recent).speed
      speedAfter == latest.speed
  IN  [speed_drop |-> /\ speedBefore >= cfg.min_speed_before * SpeedScale
                      /\ speedAfter <= cfg.max_speed_after * SpeedScale,
       activity_ok |-> ~cfg.require_driving_activity \/ WasRecentlyDriving(recent),
       not_zone_entry |-> ~cfg.ignore_zone_entry \/ ~IsZoneEntry(history),
       gps_accurate |-> Le(latest.accuracy, cfg.min_gps_accuracy)]

\* Object.values(conditions).every(c => c)
AllMet(c) ==
  c.speed_drop /\ c.activity_ok /\ c.not_zone_entry /\ c.gps_accurate

AlertData(history, recent) ==
  [speedBefore |-> MaxSpeedReading(recent).speed,
   speedAfter |-> history[Len(history)].speed,
   location |-> history[Len(history)]]

\* ------------------------------------------------------------------------
\* CrashDetector: constructor.  The thresholds are the defaults; the cooldown
\* (1 min) is configured to fit the clock, and the time window is the default
\* (5 s) or one that spans a step of the clock (40 s).
\* ------------------------------------------------------------------------
Configs ==
  [enabled : BOOLEAN,
   min_speed_before : {DefaultMinSpeedBefore},
   max_speed_after : {DefaultMaxSpeedAfter},
   time_window : {DefaultTimeWindow, 40},
   confirmation_delay : {DefaultConfirmationDelay},
   alert_cooldown : {1},
   min_gps_accuracy : {DefaultMinGpsAccuracy},
   require_driving_activity : BOOLEAN,
   ignore_zone_entry : BOOLEAN]

\* the defaults of the two switches (both true)
DefaultSwitches(cfg) == cfg.require_driving_activity /\ cfg.ignore_zone_entry

Call(op, p, ret, accepted, pattern) ==
  [op |-> op, person |-> p, ret |-> ret, accepted |-> accepted,
   pattern |-> pattern]

\* no route loaded yet
NoRoute == [loaded |-> FALSE, points |-> <<>>, trips |-> <<>>]

\* the card's timeline: the slider runs from 0 to SliderMax over the range
\* start..end; a position is kept in twentieths of a slider unit (a frame of
\* 16.67 ms at speed 1 advances it by 0.05)
SliderMax == 1000
PositionScale == 20
DefaultPlaybackSpeed == 4
DefaultHistoryDays == 7
TimelineStart == StartTime - 30 * MsPerSecond
TimelineEnd == StartTime + 90 * MsPerSecond

\* this._playback and the timeline slider after construction and render:
\* value is the position held by the running animation, marker the index of
\* the route point the marker stands on (0: not placed from the route),
\* op the last playback operation and frames the number of frames so far
NoPlayback ==
  [playing |-> FALSE, speed |-> DefaultPlaybackSpeed, animationFrame |-> FALSE,
   value |-> 0, slider |-> SliderMax, current |-> TimelineEnd, marker |-> 0,
   op |-> "new", frames |-> 0]

Constructed(cfgs) ==
  /\ rawHistory = <<>>
  /\ route = NoRoute
  /\ fetched = "none"
  /\ playback = NoPlayback
  /\ orphaned = EmptyObject
  /\ selected = DefaultHistoryDays
  /\ loads = <<>>
  /\ routes = EmptyObject
  /\ pressed = {}
  /\ now = StartTime
  /\ config \in cfgs
  /\ speedHistory = EmptyObject
  /\ pendingAlerts = EmptyObject
  /\ lastAlert = EmptyObject
  /\ timers = EmptyObject
  /\ nextTimer = 1
  /\ events = <<>>
  /\ banner = "none"
  /\ notified = <<>>
  /\ last = Call("new", "", FALSE, FALSE, FALSE)
  /\ cancelled = {}
  /\ nReadings = 0

\* ------------------------------------------------------------------------
\* CrashDetector: addReading, _checkForCrash, _triggerPendingAlert
\* They change _speedHistory, _pendingAlerts and the timer queue only: d is
\* a record of these, and each operator gives the record after the call.
\* ------------------------------------------------------------------------
Det ==
  [speedHistory |-> speedHistory, pendingAlerts |-> pendingAlerts,
   timers |-> timers, nextTimer |-> nextTimer]

InCooldown(p) ==
  p \in DOMAIN lastAlert /\ CooldownActive(config, lastAlert[p], now)

HasPending(p) == p \in DOMAIN pendingAlerts

\* the crash pattern of _checkForCrash on the retained history
Pattern(history) ==
  LET recent == After(history, WindowStart(config, now))
  IN  /\ Len(recent) >= 2
      /\ AllMet(Conditions(config, history, recent))

\* _checkForCrash without its "already pending" guard
ShouldTrigger_NoPendingGuard(d, p, history) ==
  /\ Len(history) >= 2
  /\ ~InCooldown(p)
  /\ Pattern(history)

ShouldTrigger(d, p, history) ==
  /\ Len(history) >= 2
  /\ ~InCooldown(p)
  /\ p \notin DOMAIN d.pendingAlerts
  /\ Pattern(history)

\* setTimeout called without its delay
SetTimeout_NoDelay(ts, id, p, delayMs) ==
  Put(ts, id, [person |-> p, due |-> now])

SetTimeout(ts, id, p, delayMs) ==
  Put(ts, id, [person |-> p, due |-> now + delayMs])

TriggerPendingAlert(d, p, data) ==
  [d EXCEPT
     !.pendingAlerts =
        Put(@, p, [data |-> data, timestamp |-> now, timer |-> d.nextTimer]),
     !.timers = SetTimeout(@, d.nextTimer, p,
                           config.confirmation_delay * MsPerSecond),
     !.nextTimer = @ + 1]

CheckForCrash(d, p) ==
  LET history == d.speedHistory[p]
  IN  IF ShouldTrigger(d, p, history)
      THEN TriggerPendingAlert(d, p,
             AlertData(history, After(history, WindowStart(config, now))))
      ELSE d

\* the accuracy filter letting through one metre more
Accepts_OneMore(s) == ~Gt(s.accuracy, config.min_gps_accuracy + 1)

\* accuracy > min_gps_accuracy returns early
Accepts(s) == ~Gt(s.accuracy, config.min_gps_accuracy)

\* the trim keeping a reading that is exactly 60 s old
Trim_Inclusive(history) ==
  SelectSeq(history, LAMBDA r : r.timestamp >= now - HistoryWindowMs)

\* history.filter(r => new Date(r.timestamp).getTime() > Date.now() - 60000)
Trim(history) == After(history, now - HistoryWindowMs)

\* the reading as stored; its timestamp is the time of the call
Stamped(s) ==
  [speed |-> s.speed, timestamp |-> now, zone |-> s.zone,
   activity |-> s.activity, accuracy |-> s.accuracy]

AddReadingTo(d, p, s) ==
  IF ~config.enabled THEN d
  ELSE LET h0 == IF p \in DOMAIN d.speedHistory THEN d.speedHistory[p]
                 ELSE <<>>
           d0 == [d EXCEPT !.speedHistory = Put(@, p, h0)]
       IN  IF ~Accepts(s) THEN d0
           ELSE CheckForCrash(
                  [d0 EXCEPT !.speedHistory =
                     Put(@, p, Trim(Append(h0, Stamped(s))))], p)

SetDet(d) ==
  /\ speedHistory' = d.speedHistory
  /\ pendingAlerts' = d.pendingAlerts
  /\ timers' = d.timers
  /\ nextTimer' = d.nextTimer

AddReading(p, s) ==
  LET d == AddReadingTo(Det, p, s)
  IN  /\ SetDet(d)
      /\ nReadings' = nReadings + 1
      /\ last' = Call("addReading", p, d.nextTimer # nextTimer,
                      config.enabled /\ Accepts(s),
                      /\ config.enabled /\ Accepts(s)
                      /\ Len(d.speedHistory[p]) >= 2
                      /\ Pattern(d.speedHistory[p]))
      /\ UNCHANGED <<now, config, lastAlert, events, cancelled>>

\* ------------------------------------------------------------------------
\* CrashDetector: cancelPendingAlert
\* ------------------------------------------------------------------------
\* a cancel that forgets clearTimeout
ClearTimeout_Leak(ts, id) == ts

ClearTimeout(ts, id) == Delete(ts, id)

\* a cancel that clears the timer and keeps the pending entry
CancelIn_KeepPending(d, p) ==
  IF p \in DOMAIN d.pendingAlerts
  THEN [d EXCEPT !.timers = ClearTimeout(@, d.pendingAlerts[p].timer)]
  ELSE d

\* a cancel that cancels whatever is pending, for whoever it is
CancelIn_Everyone(d, p) ==
  IF p \in DOMAIN d.pendingAlerts
  THEN [d EXCEPT !.timers = EmptyObject, !.pendingAlerts = EmptyObject]
  ELSE d

\* a cancel that also forgets the person's readings
CancelIn_ClearHistory(d, p) ==
  IF p \in DOMAIN d.pendingAlerts
  THEN [d EXCEPT !.timers = ClearTimeout(@, d.pendingAlerts[p].timer),
                 !.pendingAlerts = Delete(@, p),
                 !.speedHistory = Put(@, p, <<>>)]
  ELSE d

\* the pending alerts and timers after cancelPendingAlert(p)
CancelIn(d, p) ==
  IF p \in DOMAIN d.pendingAlerts
  THEN [d EXCEPT !.timers = ClearTimeout(@, d.pendingAlerts[p].timer),
                 !.pendingAlerts = Delete(@, p)]
  ELSE d

CancelReturns(d, p) == p \in DOMAIN d.pendingAlerts

\* what was cancelled: the timer of the alert, its person and its deadline
CancelledBy(p) ==
  IF HasPending(p)
  THEN {[timer |-> pendingAlerts[p].timer, person |-> p,
         due |-> pendingAlerts[p].timestamp
                   + config.confirmation_delay * MsPerSecond]}
  ELSE {}

CancelPendingAlert(p) ==
  /\ SetDet(CancelIn(Det, p))
  /\ cancelled' = cancelled \cup CancelledBy(p)
  /\ last' = Call("cancelPendingAlert", p, CancelReturns(Det, p), FALSE, FALSE)
  /\ UNCHANGED <<now, config, lastAlert, events, nReadings>>

\* ------------------------------------------------------------------------
\* CrashDetector: the confirmation timer and _confirmAndSendAlert
\* ------------------------------------------------------------------------
\* an alert built from the latest reading instead of the captured data
Alert_FromHistory(p, pending) ==
  LET latest == speedHistory[p][Len(speedHistory[p])]
  IN  [person |-> p,
       speedBefore |-> Round(pending.data.speedBefore),
       speedAfter |-> Round(latest.speed),
       location |-> latest,
       timestamp |-> now,
       of |-> pending.timer]

\* the detail of the dispatched event; "of" is the timer id of the pending
\* alert it confirms (observation only)
Alert(p, pending) ==
  [person |-> p,
   speedBefore |-> Round(pending.data.speedBefore),
   speedAfter |-> Round(pending.data.speedAfter),
   location |-> pending.data.location,
   timestamp |-> now,
   of |-> pending.timer]

ConfirmAndSendAlert(p) ==
  IF ~HasPending(p)
  THEN /\ UNCHANGED <<pendingAlerts, lastAlert, events>>
       /\ last' = Call("confirm", p, FALSE, FALSE, FALSE)
  ELSE /\ pendingAlerts' = Delete(pendingAlerts, p)
       /\ lastAlert' = Put(lastAlert, p, now)
       /\ events' = Append(events, Alert(p, pendingAlerts[p]))
       /\ last' = Call("confirm", p, TRUE, FALSE, FALSE)

\* the host runs a timer's callback once its delay has elapsed
TimerFire(id) ==
  /\ id \in DOMAIN timers
  /\ now >= timers[id].due
  /\ timers' = Delete(timers, id)
  /\ ConfirmAndSendAlert(timers[id].person)
  /\ UNCHANGED <<now, config, speedHistory, nextTimer, cancelled, nReadings>>

\* ------------------------------------------------------------------------
\* CrashDetector: updateConfig
\* ------------------------------------------------------------------------
UpdateConfig(k, v) ==
  /\ config' = [config EXCEPT ![k] = v]
  /\ last' = Call("updateConfig", "", FALSE, FALSE, FALSE)
  /\ UNCHANGED <<now, speedHistory, pendingAlerts, lastAlert, timers,
                 nextTimer, events, cancelled, nReadings>>

\* ------------------------------------------------------------------------
\* The clock.  Time passes in steps of TickMs up to MaxTime, and beyond it
\* only as far as a scheduled timer needs to become due.
\* ------------------------------------------------------------------------
TimerWaiting == \E id \in DOMAIN timers : timers[id].due > now

Tick ==
  /\ now + TickMs <= MaxTime \/ TimerWaiting
  /\ now' = now + TickMs
  /\ UNCHANGED <<config, speedHistory, pendingAlerts, lastAlert, timers,
                 nextTimer, events, last, cancelled, nReadings>>

\* ------------------------------------------------------------------------
\* The detector alone, fed by a caller: two persons, a fast driving reading
\* and a slow one (80.5 and 2.4 km/h), both switches at their defaults
\* ------------------------------------------------------------------------
Fast ==
  [speed |-> 805, accuracy |-> 10, zone |-> Null, activity |-> Driving]
Slow ==
  [speed |-> 24, accuracy |-> 10, zone |-> Null, activity |-> NullActivity]
LifecycleReadings == {Fast, Slow}

Init ==
  Constructed({c \in Configs : DefaultSwitches(c) /\ c.time_window = 40})

Feed == \E p \in Persons, s \in LifecycleReadings :
          nReadings < MaxReadings /\ AddReading(p, s) /\ UNCHANGED cardVars
Cancel == \E p \in Persons : CancelPendingAlert(p) /\ UNCHANGED cardVars
Deadline == \E id \in DOMAIN timers : TimerFire(id) /\ UNCHANGED cardVars
Switch == \E v \in BOOLEAN : UpdateConfig("enabled", v) /\ UNCHANGED cardVars
Clock == Tick /\ UNCHANGED cardVars

Next == Feed \/ Cancel \/ Deadline \/ Switch \/ Clock

Spec == Init /\ [][Next]_vars

\* the host runs every due timer, and time passes
FairSpec == Spec /\ WF_vars(Deadline) /\ WF_vars(Clock)

\* ------------------------------------------------------------------------
\* The detector alone, enabled, with the wide time window: two persons whose
\* readings, cancels and confirmations interleave
\* ------------------------------------------------------------------------
PairInit ==
  Constructed({c \in Configs : c.enabled /\ DefaultSwitches(c)
                                 /\ c.time_window = 40})

\* a person's first reading is the fast one; later ones are fast or slow
PairFeed == \E p \in Persons, s \in LifecycleReadings :
              /\ nReadings < MaxPairReadings
              /\ p \notin DOMAIN speedHistory => s = Fast
              /\ AddReading(p, s)
              /\ UNCHANGED cardVars

PairClock == now + TickMs <= StartTime + MaxPatternTicks * TickMs /\ Clock

PairNext == PairFeed \/ Cancel \/ Deadline \/ PairClock

PairSpec == PairInit /\ [][PairNext]_vars

\* ------------------------------------------------------------------------
\* The detector alone, enabled, with every setting of the two switches and
\* every combination of speed (5.0 / 50.0 km/h), accuracy (in range, out of
\* range, missing), zone and activity label in the readings of one person
\* ------------------------------------------------------------------------
PatternPersons == {"anna"}
PatternReadings ==
  [speed : {50, 500}, accuracy : {50}, zone : {Null, "home"},
   activity : {NullActivity, Driving, InVehicle}]
  \cup [speed : {500}, accuracy : {50}, zone : {Null}, activity : {Walking}]
  \cup [speed : {50}, accuracy : {51, NaN}, zone : {"home"},
        activity : {NullActivity}]

PatternInit ==
  Constructed({c \in Configs : c.enabled /\ c.time_window = 40})

PatternFeed == \E p \in PatternPersons, s \in PatternReadings :
                 nReadings < MaxPatternReadings /\ AddReading(p, s)
                   /\ UNCHANGED cardVars

PatternClock == now + TickMs <= StartTime + MaxPatternTicks * TickMs /\ Clock

PatternCancel == \E p \in PatternPersons :
                   CancelPendingAlert(p) /\ UNCHANGED cardVars

PatternNext == PatternFeed \/ PatternCancel \/ Deadline \/ PatternClock

PatternSpec == PatternInit /\ [][PatternNext]_vars

\* ------------------------------------------------------------------------
\* The detector alone, enabled, with the default time window or the wide
\* one, fed the fast reading, the slow one and a slow one that is 1 m less
\* accurate than min_gps_accuracy allows
\* ------------------------------------------------------------------------
Blurred ==
  [speed |-> 24, accuracy |-> DefaultMinGpsAccuracy + 1, zone |-> Null,
   activity |-> NullActivity]
WindowReadings == {Fast, Slow, Blurred}

WindowInit ==
  Constructed({c \in Configs : c.enabled /\ DefaultSwitches(c)})

WindowFeed == \E s \in WindowReadings :
                nReadings < MaxWindowReadings /\ AddReading("anna", s)
                  /\ UNCHANGED cardVars

WindowCancel == CancelPendingAlert("anna") /\ UNCHANGED cardVars

WindowNext == WindowFeed \/ WindowCancel \/ Deadline \/ Clock

WindowSpec == WindowInit /\ [][WindowNext]_vars

\* ------------------------------------------------------------------------
\* The detector alone, enabled, both switches at their defaults, fed the
\* readings of an arrival: fast on the road, then slow inside the zone
\* "home" (or slow on the road)
\* ------------------------------------------------------------------------
Arrived ==
  [speed |-> 24, accuracy |-> 10, zone |-> "home", activity |-> NullActivity]
ArrivalReadings == {Fast, Slow, Arrived}

ArrivalFeed == \E s \in ArrivalReadings :
                 nReadings < MaxArrivalReadings /\ AddReading("anna", s)
                   /\ UNCHANGED cardVars

ArrivalNext == ArrivalFeed \/ Deadline \/ Clock

ArrivalSpec == WindowInit /\ [][ArrivalNext]_vars


\* ------------------------------------------------------------------------
\* Location720Card: the crash banner, the poll that feeds the detector, the
\* window listener of 'location720-crash-alert' and the "I'm OK" handler
\* ------------------------------------------------------------------------
\* crash_detection.notify_services of the card's configuration
NotifyServices == <<"mobile_app_phone">>

\* the person entities of hass.states, in their enumeration order
PersonOrder == <<"anna", "ben">>

\* what a poll finds for one person: located or not, the speed of the last
\* point of the loaded route, gps_accuracy (NaN when missing), the state
\* label and the activity attribute
CardStates ==
  {[located |-> FALSE, speed |-> 0, gps |-> NaN, state |-> "not_home",
    activity |-> NullActivity],
   [located |-> TRUE, speed |-> 805, gps |-> 10, state |-> "not_home",
    activity |-> Driving],
   [located |-> TRUE, speed |-> 24, gps |-> 10, state |-> "home",
    activity |-> NullActivity],
   [located |-> TRUE, speed |-> 24, gps |-> NaN, state |-> "not_home",
    activity |-> NullActivity]}

\* the reading _loadPersons builds: accuracy is gps_accuracy || 999
CardReading(st) ==
  [speed |-> st.speed,
   accuracy |-> IF st.gps = NaN THEN 999 ELSE st.gps,
   zone |-> st.state,
   activity |-> st.activity]

\* .forEach over the person entities: addReading for each located person
RECURSIVE FeedFrom(_, _, _)
FeedFrom(d, states, i) ==
  IF i > Len(PersonOrder) THEN d
  ELSE LET p == PersonOrder[i]
       IN  FeedFrom(IF states[p].located
                    THEN AddReadingTo(d, p, CardReading(states[p]))
                    ELSE d,
                    states, i + 1)

Located(states) == {p \in Persons : states[p].located}

\* _loadPersons as finally patched: with Location720 coordinate sensors it
\* returns before the crash-detection patch runs
LoadPersons(sensors, states) ==
  /\ IF sensors \/ ~config.enabled
     THEN /\ UNCHANGED <<speedHistory, pendingAlerts, timers, nextTimer,
                         nReadings>>
          /\ last' = Call("loadPersons", "", FALSE, FALSE, FALSE)
     ELSE LET d == FeedFrom(Det, states, 1)
          IN  /\ SetDet(d)
              /\ nReadings' = nReadings + Cardinality(Located(states))
              /\ last' = Call("loadPersons", "", d.nextTimer # nextTimer,
                              FALSE, FALSE)
  /\ UNCHANGED <<now, config, lastAlert, events, banner, notified, cancelled>>
  /\ UNCHANGED historyVars
  /\ UNCHANGED raceVars

\* _showCrashBanner: nothing in the source calls it
ShowCrashBanner(person, seconds) ==
  /\ banner' = "block"
  /\ UNCHANGED <<now, config, speedHistory, pendingAlerts, lastAlert, timers,
                 nextTimer, events, notified, last, cancelled, nReadings>>
  /\ UNCHANGED historyVars
  /\ UNCHANGED raceVars

\* the pending alerts and timers after _cancelCrash cancelled every key of
\* _pendingAlerts
RECURSIVE CancelAllIn(_, _)
CancelAllIn(d, ps) ==
  IF ps = {} THEN d
  ELSE LET p == CHOOSE q \in ps : TRUE
       IN  CancelAllIn(CancelIn(d, p), ps \ {p})

CancelledAll(pa) ==
  {[timer |-> pa[p].timer, person |-> p,
    due |-> pa[p].timestamp + config.confirmation_delay * MsPerSecond] :
     p \in DOMAIN pa}

\* the timers of the alerts pending now: those of this._crashDetector and
\* those of the detectors it replaced
PendingTimers ==
  {pendingAlerts[p].timer : p \in DOMAIN pendingAlerts} \cup DOMAIN orphaned

\* _cancelCrash, as the click handler of the "I'm OK" button
CancelCrash ==
  /\ banner' = "none"
  /\ SetDet(CancelAllIn(Det, DOMAIN pendingAlerts))
  /\ cancelled' = cancelled \cup CancelledAll(pendingAlerts)
  /\ pressed' = pressed \cup PendingTimers
  /\ last' = Call("cancelCrash", "", pendingAlerts # EmptyObject, FALSE, FALSE)
  /\ UNCHANGED <<now, config, lastAlert, events, notified, nReadings>>
  /\ UNCHANGED historyVars
  /\ UNCHANGED <<orphaned, selected, loads, routes>>

\* _sendCrashNotifications: one notify call per configured service
NotifyCalls(alert) ==
  [i \in 1..Len(NotifyServices) |->
     [service |-> NotifyServices[i], person |-> alert.person, of |-> alert.of]]

\* the confirmation timer in the card: _confirmAndSendAlert dispatches the
\* event, the card's listener sends the notifications and calls _cancelCrash
CardTimerFire(id) ==
  /\ id \in DOMAIN timers
  /\ now >= timers[id].due
  /\ LET p == timers[id].person
         d1 == [Det EXCEPT !.timers = Delete(@, id),
                           !.pendingAlerts = Delete(@, p)]
     IN  IF ~HasPending(p)
         THEN /\ timers' = Delete(timers, id)
              /\ last' = Call("confirm", p, FALSE, FALSE, FALSE)
              /\ UNCHANGED <<speedHistory, pendingAlerts, nextTimer, lastAlert,
                             events, banner, notified, cancelled>>
         ELSE /\ lastAlert' = Put(lastAlert, p, now)
              /\ events' = Append(events, Alert(p, pendingAlerts[p]))
              /\ notified' = notified \o NotifyCalls(Alert(p, pendingAlerts[p]))
              /\ banner' = "none"
              /\ SetDet(CancelAllIn(d1, DOMAIN d1.pendingAlerts))
              /\ cancelled' = cancelled \cup CancelledAll(d1.pendingAlerts)
              /\ last' = Call("confirm", p, TRUE, FALSE, FALSE)
  /\ UNCHANGED <<now, config, nReadings>>
  /\ UNCHANGED historyVars
  /\ UNCHANGED raceVars

CardPoll == \E sensors \in BOOLEAN, states \in [Persons -> CardStates] :
              /\ nReadings + Cardinality(Located(states)) <= MaxCardReadings
              /\ LoadPersons(sensors, states)
CardDeadline == \E id \in DOMAIN timers : CardTimerFire(id)
CardClock == Tick /\ UNCHANGED cardVars

CardNext == CardPoll \/ CardDeadline \/ CancelCrash \/ CardClock

CardSpec == Init /\ [][CardNext]_vars

\* ------------------------------------------------------------------------
\* Location720Card.setConfig as patched for crash detection, and the timers
\* of the detectors it replaced
\* ------------------------------------------------------------------------
\* the pending alerts of the detector being replaced, by timer id
Orphans(pa) ==
  [id \in {pa[p].timer : p \in DOMAIN pa} |->
     pa[CHOOSE p \in DOMAIN pa : pa[p].timer = id]]

\* setConfig: the original sets _config (history_days back to its default
\* when the configuration names none), the patch makes a new CrashDetector;
\* the timers the old one scheduled stay in the host's queue
SetConfig(cfg) ==
  /\ config' = cfg
  /\ speedHistory' = EmptyObject
  /\ pendingAlerts' = EmptyObject
  /\ lastAlert' = EmptyObject
  /\ orphaned' = [id \in DOMAIN orphaned \cup DOMAIN Orphans(pendingAlerts) |->
                    IF id \in DOMAIN orphaned THEN orphaned[id]
                    ELSE Orphans(pendingAlerts)[id]]
  /\ selected' = DefaultHistoryDays
  /\ last' = Call("setConfig", "", FALSE, FALSE, FALSE)
  /\ UNCHANGED <<now, timers, nextTimer, events, banner, notified, cancelled,
                 nReadings, loads, routes, pressed>>
  /\ UNCHANGED historyVars

\* the timer of a replaced detector: its _confirmAndSendAlert finds its own
\* pending entry and dispatches the event on window; the card's listener
\* sends the notifications and calls _cancelCrash on the current detector
OrphanFire(id) ==
  /\ id \in DOMAIN orphaned
  /\ id \in DOMAIN timers
  /\ now >= timers[id].due
  /\ LET p == timers[id].person
         alert == Alert(p, orphaned[id])
         d1 == [Det EXCEPT !.timers = Delete(@, id)]
     IN  /\ events' = Append(events, alert)
         /\ notified' = notified \o NotifyCalls(alert)
         /\ banner' = "none"
         /\ SetDet(CancelAllIn(d1, DOMAIN pendingAlerts))
         /\ cancelled' = cancelled \cup CancelledAll(pendingAlerts)
         /\ orphaned' = Delete(orphaned, id)
         /\ last' = Call("confirm", p, TRUE, FALSE, FALSE)
  /\ UNCHANGED <<now, config, lastAlert, nReadings, selected, loads, routes,
                 pressed>>
  /\ UNCHANGED historyVars

\* ------------------------------------------------------------------------
\* The card reconfigured while it runs: polls without coordinate sensors,
\* setConfig with the configuration it already has, the button, the timers
\* ------------------------------------------------------------------------
ConfigPoll == \E states \in [Persons -> CardStates] :
                /\ nReadings + Cardinality(Located(states)) <= MaxConfigReadings
                /\ LoadPersons(FALSE, states)
Reconfigure == SetConfig(config)
ConfigDeadline == \E id \in DOMAIN timers \ DOMAIN orphaned : CardTimerFire(id)
OrphanDeadline == \E id \in DOMAIN orphaned : OrphanFire(id)

ConfigNext ==
  \/ ConfigPoll
  \/ Reconfigure
  \/ CancelCrash
  \/ ConfigDeadline
  \/ OrphanDeadline
  \/ CardClock

ConfigSpec == Init /\ [][ConfigNext]_vars

\* ------------------------------------------------------------------------
\* GeoUtils.  Coordinates are in micro-degrees, distances in millimetres,
\* times in milliseconds and speeds in metres per hour (1/1000 km/h).
\* The haversine distance is taken in the small-angle form, exact for two
\* points on one meridian and within 1e-7 for points a few hundred metres
\* apart near the equator: arc length = R * angle.
\* ------------------------------------------------------------------------
\* micro-degrees in a degree; millimetres in a metre
DegreeUnits == 1000000
MmPerMetre == 1000
\* R * PI / 180 = 111194.93 metres per degree (micrometres per micro-degree)
UmPerMicroDegree == 111195
MsPerHour == 3600000

MinPointDistance == 15
MovingSpeed == 5
DrivingSpeed == 25
MinTripDistance == 100

\* a coordinate that is null or undefined
Missing == -1000000000

Abs(x) == IF x < 0 THEN -x ELSE x

\* Math.sqrt, rounded down
ISqrt(n) == CHOOSE r \in 0..n : r * r <= n /\ (r + 1) * (r + 1) > n

\* GeoUtils.distance, in millimetres
Distance(p1, p2) ==
  LET dLat == Abs(p2.lat - p1.lat)
      dLon == Abs(p2.lng - p1.lng)
      angle == IF dLon = 0 THEN dLat
               ELSE IF dLat = 0 THEN dLon
               ELSE ISqrt(dLat * dLat + dLon * dLon)
  IN  (angle * UmPerMicroDegree) \div MmPerMetre

\* GeoUtils.speed, in metres per hour
Speed(p1, p2) ==
  LET dist == Distance(p1, p2)
      timeMs == p2.timestamp - p1.timestamp
  IN  IF timeMs <= 0 THEN 0
      ELSE (dist * (MsPerHour \div MmPerMetre)) \div timeMs

\* GeoUtils.routeDistance, in millimetres
RECURSIVE RouteDistanceFrom(_, _)
RouteDistanceFrom(points, i) ==
  IF i > Len(points) THEN 0
  ELSE Distance(points[i - 1], points[i]) + RouteDistanceFrom(points, i + 1)
RouteDistance(points) == RouteDistanceFrom(points, 2)

\* GeoUtils.isMoving, GeoUtils.isDriving
IsMoving(speed) == speed > MovingSpeed * MmPerMetre

\* driving from the moving threshold on
IsDriving_AsMoving(speed) == speed > MovingSpeed * MmPerMetre

IsDriving(speed) == speed > DrivingSpeed * MmPerMetre

\* the zones of the card: one circular zone, radius in metres
Zones ==
  <<[id |-> "zone.home", name |-> "Home", lat |-> 1000, lng |-> 5000,
     radius |-> 20]>>

\* GeoUtils.inZone, GeoUtils.findZone (0 when no zone holds the point)
InZone(point, zone) == Distance(point, zone) <= zone.radius * MmPerMetre
FindZone(point, zones) ==
  IF \E i \in 1..Len(zones) : InZone(point, zones[i])
  THEN CHOOSE i \in 1..Len(zones) :
         /\ InZone(point, zones[i])
         /\ \A j \in 1..(i - 1) : ~InZone(point, zones[j])
  ELSE 0

\* ------------------------------------------------------------------------
\* HistoryAPI.processHistory: filter, map, sort, thinning
\* ------------------------------------------------------------------------
\* JavaScript truthiness of a coordinate
Truthy(x) == x # Missing /\ x # 0

\* h.a && h.a.latitude && h.a.longitude
HasCoordinates(h) == h.a /\ Truthy(h.latitude) /\ Truthy(h.longitude)

\* Math.abs(latitude) <= 90 && Math.abs(longitude) <= 180
InRange(h) ==
  /\ Abs(h.latitude) <= 90 * DegreeUnits
  /\ Abs(h.longitude) <= 180 * DegreeUnits

\* latitude !== 0 && longitude !== 0
NotZero(h) == h.latitude # 0 /\ h.longitude # 0

Survives(h) == HasCoordinates(h) /\ InRange(h) /\ NotZero(h)

\* the .map(): timestamp is h.lu || h.lc, accuracy is gps_accuracy || 999
ToPoint(h) ==
  [lat |-> h.latitude,
   lng |-> h.longitude,
   timestamp |-> IF h.lu # 0 THEN h.lu ELSE h.lc,
   accuracy |-> IF Truthy(h.gps_accuracy) THEN h.gps_accuracy ELSE 999,
   battery |-> h.battery_level,
   state |-> h.s]

RECURSIVE MapToPoints(_)
MapToPoints(hs) ==
  IF hs = <<>> THEN <<>>
  ELSE <<ToPoint(Head(hs))>> \o MapToPoints(Tail(hs))

Front(q) == SubSeq(q, 1, Len(q) - 1)
Last(q) == q[Len(q)]

\* points.sort((a, b) => new Date(a.timestamp) - new Date(b.timestamp)):
\* Array.prototype.sort is stable
RECURSIVE Insert(_, _)
Insert(sorted, p) ==
  IF sorted = <<>> THEN <<p>>
  ELSE IF Last(sorted).timestamp <= p.timestamp THEN Append(sorted, p)
  ELSE Append(Insert(Front(sorted), p), Last(sorted))

\* the sort left out: the points stay in the order of the response
SortByTime_None(points) == points

RECURSIVE SortByTime(_)
SortByTime(points) ==
  IF points = <<>> THEN <<>>
  ELSE Insert(SortByTime(Front(points)), Last(points))

\* the fields the loop sets on a kept point; lastPoint is <<>> for null
Annotated(point, lastPoint, zones) ==
  LET z == FindZone(point, zones)
      speed == IF lastPoint = <<>> THEN 0 ELSE Speed(lastPoint[1], point)
  IN  [lat |-> point.lat, lng |-> point.lng, timestamp |-> point.timestamp,
       accuracy |-> point.accuracy, battery |-> point.battery,
       state |-> point.state,
       zone |-> IF z = 0 THEN Null ELSE zones[z].name,
       zoneId |-> IF z = 0 THEN Null ELSE zones[z].id,
       speed |-> speed,
       isMoving |-> IsMoving(speed),
       isDriving |-> IsDriving(speed)]

\* no thinning: every point is kept
Keeps_All(filtered, point) == TRUE

\* the thinning with a threshold of 10 m
Keeps_TenMetres(filtered, point) ==
  \/ filtered = <<>>
  \/ Distance(Last(filtered), point) > 10 * MmPerMetre

\* !lastPoint || GeoUtils.distance(lastPoint, point) > 15
Keeps(filtered, point) ==
  \/ filtered = <<>>
  \/ Distance(Last(filtered), point) > MinPointDistance * MmPerMetre

\* for (const point of points) { ... filtered.push(point) }
RECURSIVE Thin(_, _, _, _)
Thin(points, i, filtered, zones) ==
  IF i > Len(points) THEN filtered
  ELSE Thin(points, i + 1,
            IF Keeps(filtered, points[i])
            THEN Append(filtered,
                        Annotated(points[i],
                                  IF filtered = <<>> THEN <<>>
                                  ELSE <<Last(filtered)>>, zones))
            ELSE filtered,
            zones)

\* the samples that reach the sort, and the points processHistory returns
Filtered(hs) == SelectSeq(hs, Survives)
ProcessedPoints(hs, zones) ==
  Thin(SortByTime(MapToPoints(Filtered(hs))), 1, <<>>, zones)

\* ------------------------------------------------------------------------
\* HistoryAPI._detectTrips.  currentTrip is <<>> for null; from is the index
\* of the trip's first point (observation only); distances in millimetres,
\* duration in seconds.
\* ------------------------------------------------------------------------
\* the trip opened with the point before the first moving one
StartTrip_FromPrevious(points, i) ==
  [startTime |-> points[i].timestamp,
   startZone |-> IF i > 1 THEN points[i - 1].zone ELSE Null,
   points |-> IF i > 1 THEN <<points[i - 1], points[i]>> ELSE <<points[i]>>,
   maxSpeed |-> points[i].speed,
   from |-> i]

\* the trip's start zone taken from its own first point
StartTrip_OwnZone(points, i) ==
  [startTime |-> points[i].timestamp,
   startZone |-> points[i].zone,
   points |-> <<points[i]>>,
   maxSpeed |-> points[i].speed,
   from |-> i]

StartTrip(points, i) ==
  [startTime |-> points[i].timestamp,
   startZone |-> IF i > 1 THEN points[i - 1].zone ELSE Null,
   points |-> <<points[i]>>,
   maxSpeed |-> points[i].speed,
   from |-> i]

ContinueTrip(trip, point) ==
  [trip EXCEPT !.points = Append(@, point),
               !.maxSpeed = IF point.speed > @ THEN point.speed ELSE @]

EndTrip(trip, point) ==
  [startTime |-> trip.startTime,
   startZone |-> trip.startZone,
   points |-> trip.points,
   maxSpeed |-> trip.maxSpeed,
   from |-> trip.from,
   endTime |-> point.timestamp,
   endZone |-> point.zone,
   distance |-> RouteDistance(trip.points),
   duration |-> (point.timestamp - trip.startTime) \div MsPerSecond]

\* currentTrip.distance > 0.1 (km)
CountsAsTrip(trip) == trip.distance > MinTripDistance * MmPerMetre

RECURSIVE DetectTripsFrom(_, _, _, _)
DetectTripsFrom(points, i, currentTrip, trips) ==
  IF i > Len(points) THEN trips
  ELSE LET point == points[i]
       IN  IF point.isMoving /\ currentTrip = <<>>
           THEN DetectTripsFrom(points, i + 1, <<StartTrip(points, i)>>, trips)
           ELSE IF point.isMoving
           THEN DetectTripsFrom(points, i + 1,
                                <<ContinueTrip(currentTrip[1], point)>>, trips)
           ELSE IF currentTrip # <<>>
           THEN LET trip == EndTrip(currentTrip[1], point)
                IN  DetectTripsFrom(points, i + 1, <<>>,
                                    IF CountsAsTrip(trip)
                                    THEN Append(trips, trip) ELSE trips)
           ELSE DetectTripsFrom(points, i + 1, currentTrip, trips)

DetectTrips(points) == DetectTripsFrom(points, 1, <<>>, <<>>)

\* ------------------------------------------------------------------------
\* HistoryAPI._calculateStats.  distance in millimetres, times in seconds
\* (the timestamps of the model are whole seconds), speeds in metres per
\* hour, avgSpeed rounded down.
\* ------------------------------------------------------------------------
SpikeSpeed == 200

\* the early return without its duration
ZeroStats_NoDuration ==
  [distance |-> 0, duration |-> NaN, avgSpeed |-> 0, maxSpeed |-> 0,
   movingTime |-> 0, stationaryTime |-> 0, drivingTime |-> 0]

ZeroStats ==
  [distance |-> 0, duration |-> 0, avgSpeed |-> 0, maxSpeed |-> 0,
   movingTime |-> 0, stationaryTime |-> 0, drivingTime |-> 0]

\* every speed above 0 is taken
PlausibleSpeed_NoCap(speed) == speed > 0

\* s > 0 && s < 200
PlausibleSpeed(speed) == speed > 0 /\ speed < SpikeSpeed * MmPerMetre

\* points.map(p => p.speed).filter(...)
RECURSIVE SpeedsFrom(_, _)
SpeedsFrom(points, i) ==
  IF i > Len(points) THEN <<>>
  ELSE (IF PlausibleSpeed(points[i].speed) THEN <<points[i].speed>> ELSE <<>>)
         \o SpeedsFrom(points, i + 1)
Speeds(points) == SpeedsFrom(points, 1)

\* speeds.reduce((a, b) => a + b, 0) and Math.max(...speeds)
RECURSIVE SumOf(_)
SumOf(q) == IF q = <<>> THEN 0 ELSE Head(q) + SumOf(Tail(q))
RECURSIVE MaxOf(_)
MaxOf(q) ==
  IF Len(q) = 1 THEN q[1]
  ELSE LET m == MaxOf(Tail(q)) IN IF Head(q) > m THEN Head(q) ELSE m

\* (new Date(points[i].timestamp) - new Date(points[i-1].timestamp)) / 1000
IntervalSeconds(points, i) ==
  (points[i].timestamp - points[i - 1].timestamp) \div MsPerSecond

\* the interval classified by the flags of its earlier point
Classifier_Earlier(points, i) == points[i - 1]

\* the point whose flags classify the interval that ends at point i
Classifier(points, i) == points[i]

\* the loop with driving time kept apart from moving time
RECURSIVE AccumulateTimes_DrivingApart(_, _, _)
AccumulateTimes_DrivingApart(points, i, t) ==
  IF i > Len(points) THEN t
  ELSE LET dt == IntervalSeconds(points, i)
           p == Classifier(points, i)
       IN  AccumulateTimes_DrivingApart(points, i + 1,
             IF p.isDriving
             THEN [t EXCEPT !.drivingTime = @ + dt]
             ELSE IF p.isMoving
             THEN [t EXCEPT !.movingTime = @ + dt]
             ELSE [t EXCEPT !.stationaryTime = @ + dt])

\* the loop over the intervals; t holds the three sums
RECURSIVE AccumulateTimes(_, _, _)
AccumulateTimes(points, i, t) ==
  IF i > Len(points) THEN t
  ELSE LET dt == IntervalSeconds(points, i)
           p == Classifier(points, i)
       IN  AccumulateTimes(points, i + 1,
             IF p.isDriving
             THEN [t EXCEPT !.drivingTime = @ + dt, !.movingTime = @ + dt]
             ELSE IF p.isMoving
             THEN [t EXCEPT !.movingTime = @ + dt]
             ELSE [t EXCEPT !.stationaryTime = @ + dt])

CalculateStats(points) ==
  IF Len(points) < 2 THEN ZeroStats
  ELSE LET speeds == Speeds(points)
           times == AccumulateTimes(points, 2,
                      [movingTime |-> 0, stationaryTime |-> 0,
                       drivingTime |-> 0])
       IN  [distance |-> RouteDistance(points),
            duration |-> (Last(points).timestamp - points[1].timestamp)
                           \div MsPerSecond,
            avgSpeed |-> IF speeds = <<>> THEN 0
                         ELSE SumOf(speeds) \div Len(speeds),
            maxSpeed |-> IF speeds = <<>> THEN 0 ELSE MaxOf(speeds),
            movingTime |-> times.movingTime,
            stationaryTime |-> times.stationaryTime,
            drivingTime |-> times.drivingTime]

\* ------------------------------------------------------------------------
\* HistoryAPI._calculateZoneTime.  The table is a function from zone names
\* (and "Away") to entries; durations in seconds; lastVisit is NoVisit for
\* null.
\* ------------------------------------------------------------------------
NoVisit == 0
Away == "Away"

NewEntry == [duration |-> 0, visits |-> 0, lastVisit |-> NoVisit]

\* Object.values(zones).forEach(...); zoneTime['Away'] = ...
InitialZoneTime(zones) ==
  [name \in {zones[i].name : i \in 1..Len(zones)} \cup {Away} |-> NewEntry]

\* points[i].zone || 'Away'
ZoneNameOf(point) == IF Falsy(point.zone) THEN Away ELSE point.zone

\* the duration replaced instead of added to
AddInterval_Replace(entry, dt, timestamp) ==
  [entry EXCEPT !.duration = dt, !.lastVisit = timestamp]

\* zoneTime[zoneName].duration += dt; .lastVisit = points[i].timestamp
AddInterval(entry, dt, timestamp) ==
  [entry EXCEPT !.duration = @ + dt, !.lastVisit = timestamp]

\* zoneName !== lastZone
CountsVisit(zoneName, lastZone) == zoneName # lastZone

RECURSIVE ZoneTimeFrom(_, _, _, _)
ZoneTimeFrom(points, i, lastZone, zoneTime) ==
  IF i > Len(points) THEN zoneTime
  ELSE LET zoneName == ZoneNameOf(points[i])
           dt == IntervalSeconds(points, i)
           known == IF zoneName \in DOMAIN zoneTime THEN zoneTime
                    ELSE Put(zoneTime, zoneName, NewEntry)
           added == AddInterval(known[zoneName], dt, points[i].timestamp)
           counted == IF CountsVisit(zoneName, lastZone)
                      THEN [added EXCEPT !.visits = @ + 1] ELSE added
       IN  ZoneTimeFrom(points, i + 1, zoneName,
                        Put(known, zoneName, counted))

\* let lastZone = null; for (let i = 1; ...)
CalculateZoneTime(points, zones) ==
  ZoneTimeFrom(points, 2, Null, InitialZoneTime(zones))

\* processHistory: the points, stats, trips and zone times of its result
ProcessHistory(hs, zones) ==
  LET filtered == ProcessedPoints(hs, zones)
  IN  [loaded |-> TRUE, points |-> filtered, trips |-> DetectTrips(filtered),
       stats |-> CalculateStats(filtered),
       zoneVisits |-> CalculateZoneTime(filtered, zones)]

\* ------------------------------------------------------------------------
\* Location720Card._loadHistory for one person: the fetch returns a sample
\* list, then processHistory makes the route of it
\* ------------------------------------------------------------------------
HistoryFetched(hs) ==
  /\ fetched = "none" /\ rawHistory = <<>> /\ ~route.loaded
  /\ rawHistory' = hs
  /\ fetched' = "ok"
  /\ UNCHANGED <<now, config, speedHistory, pendingAlerts, lastAlert, timers,
                 nextTimer, events, banner, notified, last, cancelled,
                 nReadings, route, playback>>
  /\ UNCHANGED raceVars

\* fetchHistory when callApi rejects: the catch returns []
FetchFailed ==
  /\ fetched = "none" /\ rawHistory = <<>> /\ ~route.loaded
  /\ rawHistory' = <<>>
  /\ fetched' = "failed"
  /\ UNCHANGED <<now, config, speedHistory, pendingAlerts, lastAlert, timers,
                 nextTimer, events, banner, notified, last, cancelled,
                 nReadings, route, playback>>
  /\ UNCHANGED raceVars

HistoryProcessed ==
  /\ ~route.loaded
  /\ route' = ProcessHistory(rawHistory, Zones)
  /\ UNCHANGED <<now, config, speedHistory, pendingAlerts, lastAlert, timers,
                 nextTimer, events, banner, notified, last, cancelled,
                 nReadings, rawHistory, fetched, playback>>
  /\ UNCHANGED raceVars

\* the sequences over S of length 0..n
SeqsUpTo(S, n) == UNION {[1..k -> S] : k \in 0..n}

\* ------------------------------------------------------------------------
\* processHistory on short sample lists in any order: places 11 m and 111 m
\* apart on one meridian and one south of the equator, two timestamps (one
\* through lu, one through lc), and samples the filter is about
\* ------------------------------------------------------------------------
Sample(a, lat, lng, lu) ==
  [a |-> a, latitude |-> lat, longitude |-> lng, lu |-> lu, lc |-> StartTime,
   gps_accuracy |-> 5, battery_level |-> 80, s |-> "not_home"]

LaterTime == StartTime + 60 * MsPerSecond

ValidSamples ==
  {Sample(TRUE, lat, 5000, lu) : lat \in {1000, 1100, 2000},
                                 lu \in {0, LaterTime}}
    \cup {Sample(TRUE, -1000, 5000, LaterTime)}

OddSamples ==
  {Sample(TRUE, 0, 0, LaterTime),
   Sample(TRUE, 1000, 0, LaterTime),
   Sample(TRUE, Missing, 5000, LaterTime),
   Sample(TRUE, 91 * DegreeUnits, 5000, LaterTime),
   Sample(TRUE, 1000, 181 * DegreeUnits, LaterTime),
   Sample(FALSE, Missing, Missing, LaterTime)}

HistorySamples == ValidSamples \cup OddSamples

HistoryLoad ==
  /\ rawHistory = <<>>
  /\ \E hs \in SeqsUpTo(HistorySamples, MaxSamples) : HistoryFetched(hs)

HistoryNext == HistoryLoad \/ FetchFailed \/ HistoryProcessed

HistorySpec == Init /\ [][HistoryNext]_vars

\* ------------------------------------------------------------------------
\* processHistory on a walk along a meridian: a first sample, then one
\* sample per move.  A move is a distance north (micro-degrees) and the
\* seconds it took: 111 m in 60 s and 56 m in 30 s (both 6.7 km/h, moving),
\* 56 m in 60 s (3.3 km/h, kept, not moving), 11 m in 60 s (thinned away)
\* ------------------------------------------------------------------------
Moves ==
  {[d |-> 1000, s |-> 60], [d |-> 500, s |-> 30],
   [d |-> 500, s |-> 60], [d |-> 100, s |-> 60]}

RECURSIVE WalkFrom(_, _, _, _)
WalkFrom(moves, i, lat, t) ==
  IF i > Len(moves) THEN <<>>
  ELSE LET lat2 == lat + moves[i].d
           t2 == t + moves[i].s * MsPerSecond
       IN  <<Sample(TRUE, lat2, 5000, t2)>> \o WalkFrom(moves, i + 1, lat2, t2)

\* the first sample is where the walk starts: a move of no distance
Walk(moves) ==
  WalkFrom(<<[d |-> 0, s |-> 0]>> \o moves, 1, 1000, StartTime)

TripLoad ==
  /\ rawHistory = <<>>
  /\ \E moves \in SeqsUpTo(Moves, MaxMoves) : HistoryFetched(Walk(moves))

TripNext == TripLoad \/ HistoryProcessed

\* ------------------------------------------------------------------------
\* processHistory on a walk with speeds and zones of every kind.  The walk
\* starts at the centre of the zone Home.  Moves: 111 m in 60 s (6.7 km/h,
\* moving), 334 m in 30 s (40 km/h, driving), 334 m in 5 s (240 km/h, a
\* spike), 56 m in 60 s (3.3 km/h), 111 m in no time, 111 m back in 60 s,
\* and 18 m in 60 s (kept, and inside Home from its centre)
\* ------------------------------------------------------------------------
RouteMoves ==
  {[d |-> 1000, s |-> 60], [d |-> 3000, s |-> 30], [d |-> 3000, s |-> 5],
   [d |-> 500, s |-> 60], [d |-> 1000, s |-> 0], [d |-> -1000, s |-> 60],
   [d |-> 160, s |-> 60]}

RouteLoad ==
  /\ rawHistory = <<>>
  /\ \E moves \in SeqsUpTo(RouteMoves, MaxRouteMoves) :
       HistoryFetched(Walk(moves))

RouteNext == RouteLoad \/ FetchFailed \/ HistoryProcessed

TripInit == Constructed({c \in Configs : c.enabled /\ DefaultSwitches(c)
                                          /\ c.time_window = 40})

TripSpec == TripInit /\ [][TripNext]_vars

RouteSpec == TripInit /\ [][RouteNext]_vars

\* ------------------------------------------------------------------------
\* Location720Card._setDateRange and _loadHistory (no coordinate sensors):
\* a load fetches the persons' histories one after the other, and each
\* response is processed when it arrives, in whatever order the host
\* delivers the responses of the loads in flight
\* ------------------------------------------------------------------------
\* the preset buttons pressed: 24h, 3d and 7d
RangeDays == {1, 3, DefaultHistoryDays}

\* what the recorder holds of a person over the last days: a walk of as
\* many moves as the range has days
RecordedHistory(days) == Walk([i \in 1..days |-> [d |-> 1000, s |-> 60]])

\* _setDateRange(days): the timeline is set and _loadHistory runs up to its
\* first await: _routes is emptied and the first person's fetch is sent
SetDateRange(days) ==
  /\ Len(loads) < MaxLoads
  /\ selected' = days
  /\ playback' = [playback EXCEPT !.current = TimelineEnd]
  /\ routes' = EmptyObject
  /\ loads' = Append(loads, [next |-> 1, days |-> days])
  /\ UNCHANGED <<now, config, speedHistory, pendingAlerts, lastAlert, timers,
                 nextTimer, events, banner, notified, last, cancelled,
                 nReadings, rawHistory, route, fetched, orphaned, pressed>>

\* the loads in flight without the k-th
Without(q, k) == SubSeq(q, 1, k - 1) \o SubSeq(q, k + 1, Len(q))

\* the fetch the k-th load awaits returns: the route of that person is
\* stored, and the loop fetches the next person over the range the timeline
\* holds by then, or the load ends
HistoryResponse(k) ==
  /\ k \in 1..Len(loads)
  /\ LET load == loads[k]
         history == RecordedHistory(load.days)
     IN  /\ routes' = IF Len(history) > 0
                      THEN Put(routes, PersonOrder[load.next],
                               ProcessHistory(history, Zones))
                      ELSE routes
         /\ loads' = IF load.next < Len(PersonOrder)
                     THEN [loads EXCEPT ![k] = [next |-> load.next + 1,
                                                days |-> selected]]
                     ELSE Without(loads, k)
  /\ UNCHANGED <<now, config, speedHistory, pendingAlerts, lastAlert, timers,
                 nextTimer, events, banner, notified, last, cancelled,
                 nReadings, rawHistory, route, fetched, playback, orphaned,
                 selected, pressed>>

SelectRange == \E days \in RangeDays : SetDateRange(days)
Response == \E k \in 1..MaxLoads + 1 : HistoryResponse(k)

RangeNext == SelectRange \/ Response

RangeSpec == TripInit /\ [][RangeNext]_vars

\* ------------------------------------------------------------------------
\* Location720Card: timeline slider and playback.  Positions are in
\* twentieths of a slider unit; the time between two animation frames is
\* counted in frames of 16.67 ms, so (delta / 16.67) * 0.05 * speed is
\* delta * speed twentieths.
\* ------------------------------------------------------------------------
SeekStep == 50

\* the loop of _updateMarkersToTime: the index of the point the marker gets
RECURSIVE LookupFrom(_, _, _, _)
LookupFrom(points, i, found, targetTime) ==
  IF i > Len(points) THEN found
  ELSE IF points[i].timestamp <= targetTime
       THEN LookupFrom(points, i + 1, i, targetTime)
       ELSE found

\* the lookup that keeps the first point at or after the target
Lookup_FirstAfter(points, targetTime) ==
  IF \E i \in 1..Len(points) : points[i].timestamp >= targetTime
  THEN CHOOSE i \in 1..Len(points) :
         /\ points[i].timestamp >= targetTime
         /\ \A j \in 1..(i - 1) : points[j].timestamp < targetTime
  ELSE Len(points)

\* let point = points[0]; for (...) { if (... <= targetTime) point = ... }
Lookup(points, targetTime) == LookupFrom(points, 1, 1, targetTime)

\* _updateMarkersToTime for the one route: nothing without points
UpdateMarkersToTime(pb, targetTime) ==
  IF route.loaded /\ route.points # <<>>
  THEN [pb EXCEPT !.marker = Lookup(route.points, targetTime)]
  ELSE pb

\* start + (value / 1000) * range
TimeAt(value) ==
  TimelineStart
    + (value * ((TimelineEnd - TimelineStart) \div SliderMax))
        \div PositionScale

\* _onTimelineChange(value)
OnTimelineChange(pb, value) ==
  UpdateMarkersToTime([pb EXCEPT !.current = TimeAt(value)], TimeAt(value))

\* slider.value = value: the range input keeps the nearest whole step
\* between min and max
SliderAt(value) ==
  LET nearest == (value + PositionScale \div 2) \div PositionScale
  IN  IF nearest < 0 THEN 0
      ELSE IF nearest > SliderMax THEN SliderMax ELSE nearest

PlaybackUnchanged ==
  UNCHANGED <<now, config, speedHistory, pendingAlerts, lastAlert, timers,
              nextTimer, events, banner, notified, last, cancelled,
              nReadings, rawHistory, route, fetched, orphaned, selected,
              loads, routes, pressed>>

\* the slider's input listener: _onTimelineChange(parseInt(e.target.value))
SliderInput(v) ==
  /\ playback' = OnTimelineChange([playback EXCEPT !.slider = v,
                                                   !.op = "input"],
                                  v * PositionScale)
  /\ PlaybackUnchanged

\* _rewind and _forward
Rewind ==
  LET v == IF playback.slider - SeekStep < 0 THEN 0
           ELSE playback.slider - SeekStep
  IN  /\ playback' = OnTimelineChange([playback EXCEPT !.slider = v,
                                                       !.op = "rewind"],
                                      v * PositionScale)
      /\ PlaybackUnchanged

Forward ==
  LET v == IF playback.slider + SeekStep > SliderMax THEN SliderMax
           ELSE playback.slider + SeekStep
  IN  /\ playback' = OnTimelineChange([playback EXCEPT !.slider = v,
                                                       !.op = "forward"],
                                      v * PositionScale)
      /\ PlaybackUnchanged

\* the change listener of the speed select
SpeedChange(speed) ==
  /\ playback' = [playback EXCEPT !.speed = speed, !.op = "speed"]
  /\ PlaybackUnchanged

\* _togglePlayback: _startPlayback reads the slider and requests a frame,
\* _stopPlayback cancels the requested frame
TogglePlayback ==
  /\ playback' =
       IF ~playback.playing
       THEN [playback EXCEPT !.playing = TRUE,
                             !.value = playback.slider * PositionScale,
                             !.animationFrame = TRUE, !.op = "play"]
       ELSE [playback EXCEPT !.playing = FALSE,
                             !.animationFrame = FALSE, !.op = "pause"]
  /\ PlaybackUnchanged

\* the position is not reset at the range end
Advance_NoWrap(value, increment) == value + increment

\* value += increment; if (value >= 1000) value = 0
Advance(value, increment) ==
  IF value + increment >= SliderMax * PositionScale THEN 0
  ELSE value + increment

\* animate(now), delta frames after the last one
AnimationFrame(delta) ==
  /\ playback.animationFrame
  /\ playback.frames < MaxFrames
  /\ playback' =
       IF ~playback.playing
       THEN [playback EXCEPT !.animationFrame = FALSE, !.op = "return"]
       ELSE LET value == Advance(playback.value, delta * playback.speed)
            IN  OnTimelineChange(
                  [playback EXCEPT !.value = value,
                                   !.slider = SliderAt(value),
                                   !.op = IF value < playback.value
                                          THEN "wrap" ELSE "tick",
                                   !.frames = @ + 1],
                  value)
  /\ PlaybackUnchanged

\* ------------------------------------------------------------------------
\* Seeking on the timeline: a history of up to MaxSamples valid samples in
\* any order is loaded, then the slider is moved.  The stops are before,
\* at, between and after the two sample times.
\* ------------------------------------------------------------------------
SliderStops == {0, 100, 250, 500, 750, 900, 1000}

SeekLoad ==
  /\ rawHistory = <<>>
  /\ \E hs \in SeqsUpTo(ValidSamples, MaxSamples) : HistoryFetched(hs)

Seek == \E v \in SliderStops : SliderInput(v)

SeekNext == SeekLoad \/ HistoryProcessed \/ Seek

SeekSpec == TripInit /\ [][SeekNext]_vars

\* ------------------------------------------------------------------------
\* Playback: a history of two places is loaded; the user plays, pauses,
\* drags the slider and changes the speed while animation frames arrive.  Frames come
\* with no delay, one frame apart, or after a stall of 250 or 6000 frames.
\* ------------------------------------------------------------------------
TwoPlaces ==
  <<Sample(TRUE, 1000, 5000, StartTime), Sample(TRUE, 2000, 5000, LaterTime)>>

FrameDeltas == {0, 1, 250, 6000}
PlaybackSpeeds == {1, DefaultPlaybackSpeed}

PlaybackLoad == rawHistory = <<>> /\ HistoryFetched(TwoPlaces)
Frame == \E delta \in FrameDeltas : AnimationFrame(delta)
SelectSpeed == \E speed \in PlaybackSpeeds : SpeedChange(speed)
Scrub == \E v \in {0, SliderMax - SeekStep} : SliderInput(v)

PlaybackNext ==
  \/ PlaybackLoad \/ HistoryProcessed
  \/ TogglePlayback \/ Frame \/ SelectSpeed \/ Scrub

PlaybackSpec == TripInit /\ [][PlaybackNext]_vars

\* ------------------------------------------------------------------------
\* Properties of the pending-alert lifecycle (checked under Spec)
\* ------------------------------------------------------------------------
TimersOf(p) == {id \in DOMAIN timers : timers[id].person = p}
LastEvent == events[Len(events)]
DelayMs == config.confirmation_delay * MsPerSecond
CooldownMs == config.alert_cooldown * MsPerMinute

\* C1: once cancelPendingAlert has cancelled a pending alert, that alert's
\* confirmation never takes effect: its timer is gone, no crash-alert event
\* is ever dispatched for it, and lastAlert of its person is only ever a
\* stamp made by the confirmation of another alert.
CancelledNeverConfirmed ==
  \A c \in cancelled :
    /\ c.timer \notin DOMAIN timers
    /\ \A i \in 1..Len(events) : events[i].of # c.timer
    /\ c.person \in DOMAIN lastAlert =>
         \E i \in 1..Len(events) :
           /\ events[i].person = c.person
           /\ events[i].timestamp = lastAlert[c.person]
           /\ events[i].of # c.timer

\* a cancelled alert whose deadline has passed, with nothing confirmed
CancelledDeadlinePassed ==
  \E c \in cancelled :
    now >= c.due /\ events = <<>> /\ c.person \notin DOMAIN lastAlert

\* the timers of a person are exactly the one its pending alert holds
OnePendingPerPerson ==
  \A p \in Persons :
    /\ Cardinality(TimersOf(p)) <= 1
    /\ HasPending(p) <=> TimersOf(p) # {}
    /\ HasPending(p) => TimersOf(p) = {pendingAlerts[p].timer}

\* C2: every person has at most one pending alert and at most one scheduled
\* confirmation timer (the one its pending alert holds), and an addReading
\* for a person whose alert is pending leaves that pending alert and every
\* timer as they are.
PendingNotReplaced ==
  /\ []OnePendingPerPerson
  /\ [][\A p \in Persons :
          (HasPending(p) /\ \E s \in LifecycleReadings : AddReading(p, s))
            => /\ HasPending(p)'
               /\ pendingAlerts'[p] = pendingAlerts[p]
               /\ timers' = timers]_vars

\* an accepted reading that completes the crash pattern while the person's
\* alert is pending, and triggers nothing
PatternWhilePending ==
  /\ last.op = "addReading" /\ last.accepted /\ last.pattern /\ ~last.ret
  /\ HasPending(last.person)

\* C3: a pending alert of a person with a confirmed alert at time T was
\* created no earlier than T + alert_cooldown minutes.
CooldownRespected ==
  \A p \in Persons :
    (HasPending(p) /\ p \in DOMAIN lastAlert)
      => pendingAlerts[p].timestamp >= lastAlert[p] + CooldownMs

\* an accepted reading that completes the crash pattern during the cooldown,
\* and triggers nothing
PatternDuringCooldown ==
  /\ last.op = "addReading" /\ last.accepted /\ last.pattern /\ ~last.ret
  /\ InCooldown(last.person)
  /\ ~HasPending(last.person)

\* C4: when the confirmation timer of a pending alert fires, that one step
\* removes the person's pending entry, sets lastAlert of the person to the
\* current time and dispatches exactly one event; the event carries the
\* (rounded) speeds and the location captured when the alert was triggered.
ConfirmationStep ==
  [][\A id \in DOMAIN timers, p \in Persons :
           (timers[id].person = p /\ TimerFire(id) /\ HasPending(p))
             => /\ ~HasPending(p)'
                /\ lastAlert'[p] = now
                /\ Len(events') = Len(events) + 1
                /\ LET e == events'[Len(events')]
                       pending == pendingAlerts[p]
                   IN  /\ e.person = p
                       /\ e.speedBefore = Round(pending.data.speedBefore)
                       /\ e.speedAfter = Round(pending.data.speedAfter)
                       /\ e.location = pending.data.location
                       /\ e.location.timestamp = pending.timestamp
                       /\ e.speedAfter = Round(e.location.speed)]_vars

\* a confirmation after a reading arrived during the confirmation delay
ConfirmedAfterLaterReading ==
  /\ last.op = "confirm" /\ last.ret
  /\ LET h == speedHistory[last.person]
     IN  /\ Len(h) > 0
         /\ h[Len(h)] # LastEvent.location
         /\ h[Len(h)].speed # LastEvent.location.speed

\* C5: cancelPendingAlert(p) returns true exactly when p has a pending alert
\* and leaves p without one; it never changes lastAlert; called when nothing
\* is pending (so also right after a cancel, or after the deadline fired) it
\* returns false and changes nothing of the detector.
CancelContract ==
  [][\A p \in Persons :
       CancelPendingAlert(p)
         => /\ last'.ret = HasPending(p)
            /\ ~HasPending(p)'
            /\ lastAlert' = lastAlert
            /\ ~HasPending(p) => UNCHANGED detectorVars
            /\ (last.op = "cancelPendingAlert" /\ last.person = p)
                 => (~last'.ret /\ UNCHANGED detectorVars)]_vars

\* a cancel made after the deadline fired: false, the cooldown stamp stays
CancelAfterConfirm ==
  /\ last.op = "cancelPendingAlert" /\ ~last.ret
  /\ last.person \in DOMAIN lastAlert
  /\ InCooldown(last.person)
  /\ \E i \in 1..Len(events) : events[i].person = last.person

\* C9: while enabled is false the detector does nothing: no step dispatches
\* an event or creates a pending alert, and addReading changes no detector
\* state.
DisabledIsInactive ==
  [][~config.enabled
       => /\ events' = events
          /\ \A p \in Persons : HasPending(p)' => HasPending(p)
          /\ (\E p \in Persons, s \in LifecycleReadings : AddReading(p, s))
               => UNCHANGED detectorVars]_vars


\* a pending alert does not stay pending for ever
AlertsResolved == \A p \in Persons : HasPending(p) ~> ~HasPending(p)

\* the steps a person's pending entry can take
LifecycleSteps ==
  [][\A p \in Persons :
       /\ (~HasPending(p) /\ HasPending(p)')
            => /\ \E s \in LifecycleReadings : AddReading(p, s)
               /\ pendingAlerts'[p].timestamp = now
       /\ (HasPending(p) /\ HasPending(p)')
            => pendingAlerts'[p] = pendingAlerts[p]
       /\ (HasPending(p) /\ ~HasPending(p)')
            => \/ /\ CancelPendingAlert(p)
                  /\ events' = events
               \/ /\ TimerFire(pendingAlerts[p].timer)
                  /\ now >= pendingAlerts[p].timestamp + DelayMs
                  /\ Len(events') = Len(events) + 1
       /\ (~HasPending(p) /\ ~HasPending(p)')
            => \A i \in 1..Len(events') :
                 events'[i].person = p => i <= Len(events)]_vars

\* C6: every pending alert is eventually resolved (the timer fires, time
\* passes), and a person's pending entry only follows Idle -> Pending ->
\* (Confirmed | Cancelled) -> Idle: it appears only by an addReading of that
\* person, stays as created while pending, and disappears only by a cancel
\* of that person or by the firing of its own timer, which happens no
\* earlier than confirmation_delay seconds after the trigger and dispatches
\* the event.
PendingLifecycle == AlertsResolved /\ LifecycleSteps

\* a person back in Idle after a confirmation and after a cancel
ResolvedBothWays ==
  /\ cancelled # {}
  /\ events # <<>>
  /\ \A p \in Persons : ~HasPending(p)


\* ------------------------------------------------------------------------
\* Properties of the crash conditions (checked under PatternSpec)
\* ------------------------------------------------------------------------
\* the readings of h in the time_window lookback
Lookback(h) ==
  {i \in 1..Len(h) : h[i].timestamp > now - config.time_window * MsPerSecond}

\* the labels of the model that contain "driv", "vehicle" or "automotive"
\* when case is ignored
DrivingLabels == {Driving, InVehicle}

\* the five conditions as the claim words them, on a history h
ClaimedConditions(h) ==
  /\ \E i \in Lookback(h) :
       /\ \A j \in Lookback(h) : h[j].speed <= h[i].speed
       /\ h[i].speed >= config.min_speed_before * SpeedScale
  /\ h[Len(h)].speed <= config.max_speed_after * SpeedScale
  /\ \/ ~config.require_driving_activity
     \/ \E i \in Lookback(h) : h[i].activity \in DrivingLabels
  /\ \/ ~config.ignore_zone_entry
     \/ ~(h[Len(h) - 1].zone = Null /\ h[Len(h)].zone # Null)
  /\ /\ h[Len(h)].accuracy # NaN
     /\ h[Len(h)].accuracy <= config.min_gps_accuracy

\* C7: with no cooldown active, no alert pending and at least 2 retained
\* readings in the time_window lookback, an accepted addReading creates a
\* pending alert if and only if all five conditions hold.
TriggerIffConditions ==
  [][\A p \in PatternPersons :
       ( /\ nReadings' = nReadings + 1
         /\ last'.op = "addReading" /\ last'.person = p /\ last'.accepted
         /\ ~InCooldown(p) /\ ~HasPending(p)
         /\ Cardinality(Lookback(speedHistory'[p])) >= 2 )
       => (HasPending(p)' <=> ClaimedConditions(speedHistory'[p]))]_vars

\* a pending alert created with both switches on by a reading taken inside
\* a zone (zone unchanged) after a capitalised driving label
TriggeredInZone ==
  /\ last.op = "addReading" /\ last.ret
  /\ HasPending(last.person)
  /\ DefaultSwitches(config)
  /\ LET h == speedHistory[last.person]
     IN  /\ h[Len(h)].zone # Null
         /\ h[Len(h)].activity = NullActivity
         /\ \E i \in Lookback(h) : h[i].activity = InVehicle

\* C8: with ignore_zone_entry on, an accepted reading that has a zone, and
\* whose predecessor in the person's history has none, creates no pending
\* alert.
ZoneEntryNeverTriggers ==
  [][\A p \in PatternPersons :
       ( /\ nReadings' = nReadings + 1
         /\ last'.op = "addReading" /\ last'.person = p /\ last'.accepted
         /\ config.ignore_zone_entry
         /\ p \in DOMAIN speedHistory
         /\ Len(speedHistory[p]) >= 1
         /\ speedHistory[p][Len(speedHistory[p])].zone = Null
         /\ speedHistory'[p][Len(speedHistory'[p])].zone # Null )
       => /\ pendingAlerts' = pendingAlerts
          /\ timers' = timers]_vars

\* a zone entry that meets every other condition, and triggers nothing
ZoneEntrySuppressed ==
  /\ last.op = "addReading" /\ last.accepted /\ ~last.ret
  /\ config.ignore_zone_entry
  /\ ~HasPending(last.person) /\ ~InCooldown(last.person)
  /\ LET h == speedHistory[last.person]
     IN  /\ Len(h) >= 2
         /\ Cardinality(Lookback(h)) >= 2
         /\ h[Len(h) - 1].zone = Null /\ h[Len(h)].zone # Null
         /\ h[Len(h) - 1].speed >= config.min_speed_before * SpeedScale
         /\ h[Len(h)].speed <= config.max_speed_after * SpeedScale
         /\ h[Len(h) - 1].activity = Driving
         /\ h[Len(h)].accuracy # NaN


\* ------------------------------------------------------------------------
\* Properties of the card (checked under CardSpec)
\* ------------------------------------------------------------------------
\* C10: whenever a crash alert is pending, the card shows the crash banner
\* (with its countdown and the "I'm OK" button).
BannerShownWhilePending ==
  \A p \in Persons : HasPending(p) => banner = "block"

\* C11: a pending alert that ends without the user's cancel ends with one
\* notify call per configured service for it, and the user's cancel makes no
\* notify call.
EveryAlertNotified ==
  [][\A p \in Persons :
       (HasPending(p) /\ ~HasPending(p)')
         => IF last'.op = "cancelCrash"
            THEN notified' = notified
            ELSE \A i \in 1..Len(NotifyServices) :
                   \E j \in 1..Len(notified') :
                     notified'[j] = [service |-> NotifyServices[i],
                                     person |-> p,
                                     of |-> pendingAlerts[p].timer]]_vars

\* ------------------------------------------------------------------------
\* Properties of addReading's filter, window and trimming (checked under
\* WindowSpec)
\* ------------------------------------------------------------------------
\* the readings retained for a person (none before the first call)
ReadingsOf(p) == IF p \in DOMAIN speedHistory THEN speedHistory[p] ELSE <<>>

\* C12: an addReading whose accuracy exceeds min_gps_accuracy returns
\* normally and leaves the person's retained readings, the pending alerts,
\* lastAlert, the timers and the dispatched events as they were; it triggers
\* nothing.
InaccurateDropped ==
  [][\A s \in WindowReadings :
       (s.accuracy > config.min_gps_accuracy /\ AddReading("anna", s))
         => /\ ReadingsOf("anna")' = ReadingsOf("anna")
            /\ UNCHANGED <<pendingAlerts, lastAlert, timers, nextTimer, events>>
            /\ ~last'.ret
            /\ ~last'.pattern]_vars

\* a dropped reading that, had it been accurate, would have completed the
\* crash pattern and triggered
DroppedWouldTrigger ==
  /\ last.op = "addReading" /\ ~last.accepted
  /\ ~HasPending("anna") /\ ~InCooldown("anna")
  /\ Pattern(Append(ReadingsOf("anna"), Stamped(Slow)))

\* the readings of h that are less than 60 s old at time t
Young(h, t) == SelectSeq(h, LAMBDA r : r.timestamp > t - 60 * MsPerSecond)

\* C13: right after an accepted addReading every retained reading of the
\* person is less than 60 s old; what is retained is the readings retained
\* before that are less than 60 s old, followed by the new reading.
HistoryWithinWindow ==
  [][\A s \in WindowReadings :
       (s.accuracy <= config.min_gps_accuracy /\ AddReading("anna", s))
         => LET h == ReadingsOf("anna")'
            IN  /\ \A i \in 1..Len(h) : h[i].timestamp > now' - 60 * MsPerSecond
                /\ h = Append(Young(ReadingsOf("anna"), now), Stamped(s))]_vars

\* an accepted reading that removed the readings made exactly 60 s before it
\* (one of them is in the confirmed alert) and kept the one made 30 s before
RemovedAtSixtySeconds ==
  /\ last.op = "addReading" /\ last.accepted
  /\ events # <<>>
  /\ LastEvent.location.timestamp = now - 60 * MsPerSecond
  /\ LET h == ReadingsOf("anna")
     IN  /\ Len(h) = 2
         /\ h[1].timestamp = now - 30 * MsPerSecond
         /\ h[2].timestamp = now

\* the readings of h made within the last time_window seconds before t
Recent(h, t) ==
  SelectSeq(h, LAMBDA r : r.timestamp > t - config.time_window * MsPerSecond)

\* C14: a pending alert appears only in a step after which at least 2 of the
\* person's readings are retained and at least 2 of them were made within
\* the last time_window seconds.
TriggerNeedsTwoRecent ==
  [][\A p \in Persons :
       (~HasPending(p) /\ HasPending(p)')
         => /\ Len(ReadingsOf(p)') >= 2
            /\ Len(Recent(ReadingsOf(p)', now')) >= 2]_vars

\* a fast driving reading and, 30 s later, a slow one: both retained, only
\* the slow one within the 5 s lookback, and nothing triggered although the
\* two readings meet every condition
OutsideLookback ==
  /\ last.op = "addReading" /\ last.accepted /\ ~last.ret
  /\ ~HasPending("anna") /\ ~InCooldown("anna")
  /\ config.time_window = DefaultTimeWindow
  /\ LET h == ReadingsOf("anna")
     IN  /\ Len(h) = 2
         /\ h[1].timestamp = now - 30 * MsPerSecond
         /\ Len(Recent(h, now)) = 1
         /\ AllMet(Conditions(config, h, h))

\* ------------------------------------------------------------------------
\* Properties of processHistory's points (checked under HistorySpec)
\* ------------------------------------------------------------------------
\* the timestamps of the samples that survive the filter, in input order
SurvivorTimes ==
  LET pts == MapToPoints(Filtered(rawHistory))
  IN  [i \in 1..Len(pts) |-> pts[i].timestamp]

DistinctTimes ==
  \A i, j \in 1..Len(SurvivorTimes) :
    i # j => SurvivorTimes[i] # SurvivorTimes[j]

\* C15 as claimed: each returned point's timestamp is strictly greater than
\* its predecessor's, for every sample list.
StrictlyTimeOrdered ==
  route.loaded =>
    \A i \in 2..Len(route.points) :
      route.points[i].timestamp > route.points[i - 1].timestamp

\* C15 as amended: each returned point's timestamp is greater than or equal
\* to its predecessor's, and strictly greater when no two surviving samples
\* share a timestamp.
TimeOrdered ==
  route.loaded =>
    \A i \in 2..Len(route.points) :
      /\ route.points[i].timestamp >= route.points[i - 1].timestamp
      /\ DistinctTimes =>
           route.points[i].timestamp > route.points[i - 1].timestamp

\* a response whose two surviving samples came latest first, both returned
SortedReversedInput ==
  /\ route.loaded
  /\ Len(SurvivorTimes) = 2
  /\ SurvivorTimes[1] > SurvivorTimes[2]
  /\ Len(route.points) = 2
  /\ route.points[1].timestamp < route.points[2].timestamp

\* the surviving samples as points, and the index of the first of them in
\* timestamp order (the earliest in the response among the first in time)
Survivors == MapToPoints(Filtered(rawHistory))
FirstInTime ==
  CHOOSE k \in 1..Len(Survivors) :
    /\ \A j \in 1..Len(Survivors) :
         Survivors[j].timestamp >= Survivors[k].timestamp
    /\ \A j \in 1..(k - 1) :
         Survivors[j].timestamp > Survivors[k].timestamp

\* C16: every returned point but the first is more than 15 m from the point
\* returned before it, and the first surviving sample in timestamp order is
\* the first returned point.
ThinnedFromLastKept ==
  route.loaded =>
    /\ \A i \in 2..Len(route.points) :
         Distance(route.points[i - 1], route.points[i]) > 15 * MmPerMetre
    /\ Survivors # <<>> =>
         /\ route.points # <<>>
         /\ route.points[1].lat = Survivors[FirstInTime].lat
         /\ route.points[1].lng = Survivors[FirstInTime].lng
         /\ route.points[1].timestamp = Survivors[FirstInTime].timestamp

\* three surviving samples of which one was dropped for being within 15 m
\* of the point kept before it; the first in time was not first in the
\* response
ThinnedOne ==
  /\ route.loaded
  /\ Len(Survivors) = 3
  /\ FirstInTime # 1
  /\ Len(route.points) = 2

\* C17 as claimed: every two distinct returned points are more than 15 m
\* apart.
AllPairsApart ==
  route.loaded =>
    \A i, j \in 1..Len(route.points) :
      i < j => Distance(route.points[i], route.points[j]) > 15 * MmPerMetre

\* C17 as amended: two returned points that are 15 m apart or less are never
\* next to each other: the point returned right after the earlier of them is
\* more than 15 m from it.
ClosePairsNotAdjacent ==
  route.loaded =>
    \A i, j \in 1..Len(route.points) :
      (i < j /\ Distance(route.points[i], route.points[j]) <= 15 * MmPerMetre)
        => /\ j > i + 1
           /\ Distance(route.points[i], route.points[i + 1]) > 15 * MmPerMetre

\* a way out and back: the third point is within 15 m of the first
ReturnedNearStart ==
  /\ route.loaded
  /\ Len(route.points) = 3
  /\ Distance(route.points[1], route.points[3]) <= 15 * MmPerMetre

\* the samples the filter is said to let through: both coordinates present,
\* |lat| <= 90, |lng| <= 180, and not exactly (0, 0)
SaidToSurvive(h) ==
  /\ h.a /\ h.latitude # Missing /\ h.longitude # Missing
  /\ Abs(h.latitude) <= 90 * DegreeUnits
  /\ Abs(h.longitude) <= 180 * DegreeUnits
  /\ ~(h.latitude = 0 /\ h.longitude = 0)

\* C18: the samples that reach the sort are exactly those with both
\* coordinates, |lat| <= 90, |lng| <= 180 and not at (0, 0); so a response
\* holding such a sample yields at least one point.
FilterDropsOnlyInvalid ==
  /\ Filtered(rawHistory) = SelectSeq(rawHistory, SaidToSurvive)
  /\ route.loaded =>
       (route.points # <<>>
          <=> \E i \in 1..Len(rawHistory) : SaidToSurvive(rawHistory[i]))

\* ------------------------------------------------------------------------
\* Properties of the trips (checked under TripSpec)
\* ------------------------------------------------------------------------
\* a maximal run of consecutive moving points: from index a to index b
MaximalRun(a, b) ==
  /\ a <= b
  /\ \A i \in a..b : route.points[i].isMoving
  /\ a = 1 \/ ~route.points[a - 1].isMoving
  /\ b = Len(route.points) \/ ~route.points[b + 1].isMoving

\* the trip made of the points a..b has been emitted
Emitted(a, b) ==
  \E k \in 1..Len(route.trips) :
    route.trips[k].points = SubSeq(route.points, a, b)

\* C19: for every maximal run of moving points, wherever it lies, a trip of
\* exactly these points is emitted if and only if the run's total distance
\* is greater than 0.1 km; and every emitted trip is such a run.
TripIffLongRun ==
  route.loaded =>
    /\ \A a, b \in 1..Len(route.points) :
         MaximalRun(a, b) =>
           (Emitted(a, b)
              <=> RouteDistance(SubSeq(route.points, a, b)) > 100 * MmPerMetre)
    /\ \A k \in 1..Len(route.trips) :
         \E a, b \in 1..Len(route.points) :
           /\ MaximalRun(a, b)
           /\ route.trips[k].points = SubSeq(route.points, a, b)

\* C20: the points of every emitted trip are consecutive points of the
\* processed sequence, all of them moving; the trips' point ranges are
\* disjoint and the trips are in chronological order.
TripsContiguousDisjoint ==
  route.loaded =>
    /\ \A k \in 1..Len(route.trips) :
         LET trip == route.trips[k]
         IN  /\ trip.points # <<>>
             /\ trip.from + Len(trip.points) - 1 <= Len(route.points)
             /\ trip.points = SubSeq(route.points, trip.from,
                                     trip.from + Len(trip.points) - 1)
             /\ \A i \in 1..Len(trip.points) : trip.points[i].isMoving
    /\ \A k, l \in 1..Len(route.trips) :
         k < l =>
           /\ route.trips[k].from + Len(route.trips[k].points)
                <= route.trips[l].from
           /\ route.trips[k].endTime <= route.trips[l].startTime

\* two trips emitted from one walk
TwoTrips == route.loaded /\ Len(route.trips) = 2

\* ------------------------------------------------------------------------
\* Properties of the zone-time table (checked under RouteSpec)
\* ------------------------------------------------------------------------
RECURSIVE DurationOver(_, _)
DurationOver(zoneTime, names) ==
  IF names = {} THEN 0
  ELSE LET name == CHOOSE n \in names : TRUE
       IN  zoneTime[name].duration + DurationOver(zoneTime, names \ {name})

TotalDuration(zoneTime) == DurationOver(zoneTime, DOMAIN zoneTime)

\* C21: the durations of all entries of the zone-time table (every zone and
\* "Away") add up to the time between the first and the last point of the
\* processed sequence, and to 0 when there are fewer than 2 points.
ZoneTimeSumsToElapsed ==
  route.loaded =>
    /\ {Zones[i].name : i \in 1..Len(Zones)} \cup {Away}
         \subseteq DOMAIN route.zoneVisits
    /\ TotalDuration(route.zoneVisits) =
         IF Len(route.points) < 2 THEN 0
         ELSE (route.points[Len(route.points)].timestamp
                 - route.points[1].timestamp) \div MsPerSecond

\* time was spent both in Home and away, over three intervals or more
TimeInTwoZones ==
  /\ route.loaded
  /\ Len(route.points) >= 4
  /\ route.zoneVisits["Home"].duration > 0
  /\ route.zoneVisits[Away].duration > 0

\* the number of points i >= 2 that are in the zone and whose predecessor
\* is not
Entries(name) ==
  Cardinality({i \in 2..Len(route.points) :
                 /\ ZoneNameOf(route.points[i]) = name
                 /\ ZoneNameOf(route.points[i - 1]) # name})

\* C22: a zone's visit count is incremented at a point only if the point's
\* zone (or "Away") differs from the zone of the point before it, the first
\* two points included: the count is at most the number of such points.
VisitsOnlyOnZoneChange ==
  route.loaded =>
    \A name \in DOMAIN route.zoneVisits :
      route.zoneVisits[name].visits <= Entries(name)

\* ------------------------------------------------------------------------
\* Properties of the timeline and of playback (checked under SeekSpec and
\* PlaybackSpec)
\* ------------------------------------------------------------------------
\* the slider was moved after the route was made
Sought == route.loaded /\ route.points # <<>> /\ playback.marker > 0

\* C23: on a non-empty time-ordered point sequence the marker is put on a
\* point with the latest timestamp at or before the target time (the last
\* such point of the sequence); on the first point when the target is
\* before every point, on the last point when the target is at or after
\* the last timestamp.
LookupLatestAtOrBefore ==
  Sought =>
    LET points == route.points
        target == playback.current
        m == playback.marker
    IN  /\ m \in 1..Len(points)
        /\ target < points[1].timestamp => m = 1
        /\ target >= points[Len(points)].timestamp => m = Len(points)
        /\ target >= points[1].timestamp =>
             /\ points[m].timestamp <= target
             /\ \A i \in 1..Len(points) :
                  points[i].timestamp <= target =>
                    /\ points[i].timestamp <= points[m].timestamp
                    /\ i <= m

\* the target lies between two points with different timestamps
SoughtBetween ==
  /\ Sought
  /\ playback.marker < Len(route.points)
  /\ route.points[playback.marker].timestamp < playback.current
  /\ playback.current < route.points[playback.marker + 1].timestamp

RangeEnd == SliderMax * PositionScale

\* C24: while playback runs, an animation tick moves the position by
\* (delta / 16.67) * 0.05 * speed; a position that reaches or passes the
\* range end is reset to the start and playback keeps running (the next
\* frame is requested), so after every tick the position is at least 0 and
\* less than the range end.
TickAdvancesAndWraps ==
  [][(playback'.frames = playback.frames + 1) =>
       /\ playback.playing /\ playback'.playing
       /\ playback'.animationFrame
       /\ \E delta \in FrameDeltas :
            LET position == playback.value + delta * playback.speed
            IN  playback'.value =
                  IF position >= RangeEnd THEN 0 ELSE position
       /\ playback'.value >= 0
       /\ playback'.value < RangeEnd
       /\ playback'.current = TimeAt(playback'.value)]_vars

\* a tick has reset the position at the range end and playback runs on
WrappedWhilePlaying ==
  /\ playback.op = "wrap"
  /\ playback.value = 0
  /\ playback.playing
  /\ playback.animationFrame

\* ------------------------------------------------------------------------
\* Properties of fetchHistory and of short results (checked under
\* HistorySpec)
\* ------------------------------------------------------------------------
\* C25: a failed fetch gives the empty sample list and nothing else happens;
\* when processHistory is left with fewer than 2 points, every field of the
\* stats is 0, there is no trip and every zone-time entry has duration 0.
FailureGivesEmptyResult ==
  /\ fetched = "failed" => rawHistory = <<>>
  /\ (route.loaded /\ Len(route.points) < 2) =>
       /\ route.stats.distance = 0
       /\ route.stats.duration = 0
       /\ route.stats.avgSpeed = 0
       /\ route.stats.maxSpeed = 0
       /\ route.stats.movingTime = 0
       /\ route.stats.stationaryTime = 0
       /\ route.stats.drivingTime = 0
       /\ route.trips = <<>>
       /\ \A name \in DOMAIN route.zoneVisits :
            route.zoneVisits[name].duration = 0

\* the fetch failed and its empty list was processed
FailedFetchProcessed == fetched = "failed" /\ route.loaded

\* ------------------------------------------------------------------------
\* Properties of the points' speeds and of the statistics (checked under
\* RouteSpec)
\* ------------------------------------------------------------------------
\* the time from point i - 1 to point i, in milliseconds
Elapsed(i) == route.points[i].timestamp - route.points[i - 1].timestamp

\* C26: the first returned point has speed 0 and is neither moving nor
\* driving; a point that is no later than the point kept before it has
\* speed 0; every other point's speed is the distance from that point over
\* the elapsed hours; a point is moving exactly when its speed is above
\* 5 km/h and driving exactly when it is above 25 km/h, so a driving point
\* is moving.
SpeedAndFlags ==
  (route.loaded /\ route.points # <<>>) =>
    /\ route.points[1].speed = 0
    /\ ~route.points[1].isMoving
    /\ ~route.points[1].isDriving
    /\ \A i \in 2..Len(route.points) :
         LET point == route.points[i]
             millimetres == Distance(route.points[i - 1], point)
         IN  /\ Elapsed(i) <= 0 => point.speed = 0
             /\ Elapsed(i) > 0 =>
                  point.speed =
                    (millimetres * (MsPerHour \div MmPerMetre)) \div Elapsed(i)
             /\ point.isMoving <=> point.speed > 5 * MmPerMetre
             /\ point.isDriving <=> point.speed > 25 * MmPerMetre
             /\ point.isDriving => point.isMoving

\* a route with a driving point, a point that moves without driving, and a
\* point 111 m from its predecessor at the same instant
EverySpeedClass ==
  /\ route.loaded
  /\ \E i, j, k \in 2..Len(route.points) :
       /\ route.points[i].isDriving
       /\ route.points[j].isMoving /\ ~route.points[j].isDriving
       /\ Elapsed(k) = 0 /\ route.points[k].speed = 0

\* the seconds of the intervals i..n whose later point is of the kind
RECURSIVE SecondsOf(_, _)
SecondsOf(kind, i) ==
  IF i > Len(route.points) THEN 0
  ELSE LET point == route.points[i]
           is == CASE kind = "driving" -> point.isDriving
                   [] kind = "moving" -> point.isDriving \/ point.isMoving
                   [] OTHER -> ~point.isDriving /\ ~point.isMoving
       IN  (IF is THEN Elapsed(i) \div MsPerSecond ELSE 0)
             + SecondsOf(kind, i + 1)

\* C27: every interval between two points is classified by the flags of its
\* later point: drivingTime is the time of the intervals that end at a
\* driving point, movingTime the time of those that end at a driving or
\* moving point, stationaryTime the time of all others.
IntervalsByLaterPoint ==
  (route.loaded /\ Len(route.points) >= 2) =>
    /\ route.stats.drivingTime = SecondsOf("driving", 2)
    /\ route.stats.movingTime = SecondsOf("moving", 2)
    /\ route.stats.stationaryTime = SecondsOf("stationary", 2)

\* two neighbouring points of different classes, both after real intervals:
\* the interval between them counts by the later one
ClassChanges ==
  /\ route.loaded
  /\ \E i \in 3..Len(route.points) :
       /\ route.points[i].isDriving /\ ~route.points[i - 1].isMoving
       /\ Elapsed(i) > 0 /\ Elapsed(i - 1) > 0
       /\ Elapsed(i) # Elapsed(i - 1)

\* the points whose speed is above 0 and below 200 km/h
Plausible ==
  {i \in 1..Len(route.points) :
     route.points[i].speed > 0 /\ route.points[i].speed < 200 * MmPerMetre}

RECURSIVE SpeedSum(_)
SpeedSum(indices) ==
  IF indices = {} THEN 0
  ELSE LET i == CHOOSE j \in indices : TRUE
       IN  route.points[i].speed + SpeedSum(indices \ {i})

\* C28: maxSpeed and avgSpeed are taken over the point speeds strictly
\* between 0 and 200 km/h only: maxSpeed is 0 when there is none and the
\* largest of them otherwise, avgSpeed is their mean (0 when there is
\* none); a speed of 200 km/h or more is never maxSpeed.
SpikesLeftOut ==
  route.loaded =>
    /\ route.stats.maxSpeed < 200 * MmPerMetre
    /\ (Len(route.points) < 2 \/ Plausible = {}) =>
         (route.stats.maxSpeed = 0 /\ route.stats.avgSpeed = 0)
    /\ (Len(route.points) >= 2 /\ Plausible # {}) =>
         /\ \E i \in Plausible : route.stats.maxSpeed = route.points[i].speed
         /\ \A i \in Plausible : route.points[i].speed <= route.stats.maxSpeed
         /\ route.stats.avgSpeed = SpeedSum(Plausible) \div Cardinality(Plausible)

\* a route with a spike of 200 km/h or more next to two plausible speeds
SpikeAmongSpeeds ==
  /\ route.loaded
  /\ Cardinality(Plausible) >= 2
  /\ \E i \in 1..Len(route.points) :
       route.points[i].speed >= 200 * MmPerMetre

\* C29: a trip's startTime is the timestamp of its first moving point and
\* its startZone the zone of the point right before that one (null when
\* there is none); its endTime and endZone are those of the non-moving
\* point that closes it; its duration is endTime - startTime and is not
\* negative.
TripStartAndEnd ==
  route.loaded =>
    \A k \in 1..Len(route.trips) :
      LET trip == route.trips[k]
          first == trip.from
          closing == trip.from + Len(trip.points)
      IN  /\ route.points[first].isMoving
          /\ trip.points[1] = route.points[first]
          /\ trip.startTime = route.points[first].timestamp
          /\ first > 1 => trip.startZone = route.points[first - 1].zone
          /\ first = 1 => trip.startZone = Null
          /\ closing <= Len(route.points)
          /\ ~route.points[closing].isMoving
          /\ trip.endTime = route.points[closing].timestamp
          /\ trip.endZone = route.points[closing].zone
          /\ trip.duration = (trip.endTime - trip.startTime) \div MsPerSecond
          /\ trip.duration >= 0

\* a trip that starts after a point in Home and is closed away from it
TripFromHome ==
  /\ route.loaded
  /\ \E k \in 1..Len(route.trips) :
       /\ route.trips[k].startZone = "Home"
       /\ route.trips[k].endZone = Null
       /\ route.trips[k].duration > 0

\* ------------------------------------------------------------------------
\* Properties of the live-state poll (checked under CardSpec)
\* ------------------------------------------------------------------------
\* C30: while crash detection is enabled, every poll of the live state hands
\* one reading per located person to the crash detector, whether the
\* persons come from person entities or from Location720 coordinate
\* sensors.
PollFeedsEveryPerson ==
  [][\A sensors \in BOOLEAN, states \in [Persons -> CardStates] :
       (config.enabled /\ LoadPersons(sensors, states)) =>
         nReadings' = nReadings + Cardinality(Located(states))]_vars

\* ------------------------------------------------------------------------
\* Properties of the confirmation in the card (checked under CardSpec)
\* ------------------------------------------------------------------------
\* C31: the confirmation of one person's crash alert, with the notification
\* dispatch that follows it, leaves every other person's pending alert
\* pending, with its confirmation timer still scheduled.
OthersStayPending ==
  [][\A p \in Persons :
       (last'.op = "confirm" /\ last'.person = p /\ last'.ret)
         => \A q \in Persons \ {p} :
              HasPending(q) =>
                /\ HasPending(q)'
                /\ pendingAlerts'[q] = pendingAlerts[q]
                /\ pendingAlerts[q].timer \in DOMAIN timers']_vars

\* ------------------------------------------------------------------------
\* Properties of an arrival in a zone (checked under ArrivalSpec)
\* ------------------------------------------------------------------------
\* the history h ends inside a zone that was entered after a high-speed
\* reading of the time_window lookback taken outside every zone
ArrivedSince(h) ==
  /\ Len(h) >= 2
  /\ h[Len(h)].zone # Null
  /\ \E k \in Lookback(h) :
       /\ k < Len(h)
       /\ h[k].zone = Null
       /\ h[k].speed >= config.min_speed_before * SpeedScale
       /\ \A j \in (k + 1)..Len(h) : h[j].zone = h[Len(h)].zone

\* C32: with ignore_zone_entry on, an accepted reading taken inside a zone
\* that was entered after the high-speed reading of the lookback creates no
\* pending alert, whether it is the zone-entry reading itself or a following
\* reading inside the same zone.
ArrivalNeverTriggers ==
  [][\A s \in ArrivalReadings :
       ( /\ AddReading("anna", s)
         /\ last'.accepted
         /\ config.ignore_zone_entry
         /\ ArrivedSince(speedHistory'["anna"]) )
       => /\ pendingAlerts' = pendingAlerts
          /\ timers' = timers]_vars

\* ------------------------------------------------------------------------
\* Properties of the "I'm OK" button (checked under ConfigSpec)
\* ------------------------------------------------------------------------
\* C33: no crash-alert event is dispatched for an alert that was pending
\* when the user pressed "I'm OK", whether or not setConfig was called
\* between the trigger and the press.
PressedNeverFires ==
  \A i \in 1..Len(events) : events[i].of \notin pressed

\* ------------------------------------------------------------------------
\* Properties of a cancel and what follows it (checked under Spec)
\* ------------------------------------------------------------------------
\* C34: cancelPendingAlert changes only the person's pending entry (and
\* clears its timer): every speedHistory, every lastAlert, the configuration
\* and the other persons' pending alerts stay as they are; and the next
\* accepted reading of the person that completes the crash pattern after a
\* cancel creates a new pending alert.
CancelChangesOnlyPending ==
  [][\A p \in Persons :
       /\ CancelPendingAlert(p)
            => /\ speedHistory' = speedHistory
               /\ lastAlert' = lastAlert
               /\ config' = config
               /\ events' = events
               /\ \A q \in Persons \ {p} :
                    /\ HasPending(q)' <=> HasPending(q)
                    /\ HasPending(q) => pendingAlerts'[q] = pendingAlerts[q]
               /\ \A id \in DOMAIN timers :
                    id \in DOMAIN timers'
                      <=> ~(HasPending(p) /\ id = pendingAlerts[p].timer)
       /\ ( /\ last.op = "cancelPendingAlert" /\ last.person = p /\ last.ret
            /\ last'.op = "addReading" /\ last'.person = p
            /\ last'.accepted /\ last'.pattern )
            => /\ last'.ret
               /\ HasPending(p)'
               /\ pendingAlerts'[p].timestamp = now]_vars

\* a pending alert created by the reading that followed the cancel of the
\* person's earlier alert, with no alert of the person ever confirmed
RetriggeredAfterCancel ==
  /\ last.op = "addReading" /\ last.ret
  /\ HasPending(last.person)
  /\ last.person \notin DOMAIN lastAlert
  /\ \E c \in cancelled :
       /\ c.person = last.person
       /\ c.timer # pendingAlerts[last.person].timer
       /\ Len(speedHistory[last.person]) >= 3

\* ------------------------------------------------------------------------
\* Properties of two persons in one detector (checked under PairSpec)
\* ------------------------------------------------------------------------
\* what the object obj holds for person q (nothing, or a value)
EntryOf(obj, q) == IF q \in DOMAIN obj THEN <<obj[q]>> ELSE <<>>

\* the detector's state of person q stays as it is in this step
Untouched(q) ==
  /\ EntryOf(speedHistory', q) = EntryOf(speedHistory, q)
  /\ EntryOf(pendingAlerts', q) = EntryOf(pendingAlerts, q)
  /\ EntryOf(lastAlert', q) = EntryOf(lastAlert, q)
  /\ \A id \in DOMAIN timers \cup DOMAIN timers' :
       (id \in DOMAIN timers /\ timers[id].person = q)
         <=> (id \in DOMAIN timers' /\ timers'[id].person = q)

\* C35: an addReading, a cancelPendingAlert or a deadline confirmation for
\* one person leaves every other person's speedHistory, pending alert (with
\* its timer) and lastAlert as they are, in every interleaving of the
\* persons' operations.
OtherPersonUntouched ==
  [][\A p \in Persons :
       ( \/ \E s \in LifecycleReadings : AddReading(p, s)
         \/ CancelPendingAlert(p)
         \/ \E id \in DOMAIN timers : timers[id].person = p /\ TimerFire(id) )
       => \A q \in Persons \ {p} : Untouched(q)]_vars

\* one person's alert was cancelled and the other's confirmed while each
\* other's alert was pending
BothPendingThenResolved ==
  /\ last.op = "confirm" /\ last.ret
  /\ \E c \in cancelled :
       /\ c.person # last.person
       /\ c.due = LastEvent.location.timestamp + DelayMs
  /\ \A p \in Persons : p \in DOMAIN speedHistory /\ Len(speedHistory[p]) = 2

\* ------------------------------------------------------------------------
\* Properties of overlapping history loads (checked under RangeSpec)
\* ------------------------------------------------------------------------
\* C36: once every history load has finished, each person's entry of
\* _routes is the route of the date range selected last; the response of an
\* older load does not replace what the newer load stored.
NewestRangeWins ==
  (loads = <<>> /\ routes # EmptyObject)
    => \A p \in Persons :
         /\ p \in DOMAIN routes
         /\ routes[p] = ProcessHistory(RecordedHistory(selected), Zones)

\* ------------------------------------------------------------------------
\* Properties of a scrub during playback (checked under PlaybackSpec)
\* ------------------------------------------------------------------------
\* C37: when the slider was moved by hand while playback is running, the
\* next animation tick advances from the position the slider was moved to.
ScrubTakesEffect ==
  [][( /\ playback.playing
       /\ playback.op \in {"input", "rewind", "forward"}
       /\ playback'.frames = playback.frames + 1 )
     => \E delta \in FrameDeltas :
          /\ AnimationFrame(delta)
          /\ playback'.value = Advance(playback.slider * PositionScale,
                                       delta * playback.speed)]_vars

\* ------------------------------------------------------------------------
\* Properties of the time sums of the statistics (checked under RouteSpec)
\* ------------------------------------------------------------------------
\* C38: for a processed sequence of at least 2 points, movingTime plus
\* stationaryTime is the duration, which is the time from the first to the
\* last point, and drivingTime is between 0 and movingTime.
TimesAddUp ==
  (route.loaded /\ Len(route.points) >= 2) =>
    LET stats == route.stats
        n == Len(route.points)
    IN  /\ stats.duration
             = (route.points[n].timestamp - route.points[1].timestamp)
                 \div MsPerSecond
        /\ stats.movingTime + stats.stationaryTime = stats.duration
        /\ 0 <= stats.drivingTime
        /\ stats.drivingTime <= stats.movingTime
        /\ 0 <= stats.stationaryTime

\* a route with time of all three kinds: driving, moving without driving,
\* and standing still
TimeOfEveryKind ==
  /\ route.loaded
  /\ Len(route.points) >= 4
  /\ route.stats.drivingTime > 0
  /\ route.stats.movingTime > route.stats.drivingTime
  /\ route.stats.stationaryTime > 0

====
